---- MODULE Spec2Model ----
(***************************************************************************)
(* slop-detector: source model extraction and dependency graph engine.     *)
(*                                                                         *)
(* The model follows one analyze run: discovered files are parsed into     *)
(* ParsedFile records, GraphBuilder turns the collection into a file graph *)
(* or an entity graph, and GraphAnalyzer computes cycles and stranded      *)
(* nodes and annotates the graph in place.                                 *)
(*                                                                         *)
(* Text values (paths, module strings, names) are TLA+ strings; Len,       *)
(* SubSeq and \o act on them character by character, so the path and       *)
(* module-name manipulation of the builder is computed as the code does.   *)
(***************************************************************************)
EXTENDS Integers, Sequences, FiniteSets, TLC

VARIABLES
    files,          \* discovered source files, in discovery order
    next_file,      \* index of the next file the parse loop handles
    parsed_files,   \* cli.analyze: parsed_files
    parse_failed,   \* paths whose parse_file call raised
    file_graph,     \* GraphBuilder.file_graph
    entity_graph,   \* GraphBuilder.entity_graph
    analyzer_graph, \* which graph object GraphAnalyzer.graph refers to
    pc,             \* position of the analyze run ("api": direct use of the classes)
    last_op,        \* the operation that ran last
    result,         \* the value the last operation returned
    held,           \* the graph an earlier build call returned to the caller
    worker,         \* concurrent parse workers: each one's parse_file call in progress
    visitor,        \* the definition visitors (visit_node closures) of the calls in progress
    DEFAULT_CONFIG, \* the module-level dict of utils/config.py, as it stands
    configs         \* the Config instances constructed so far

vars == <<files, next_file, parsed_files, parse_failed, file_graph,
          entity_graph, analyzer_graph, pc, last_op, result, held,
          worker, visitor, DEFAULT_CONFIG, configs>>

----------------------------------------------------------------------------
(* Bounds *)

MaxFiles == 2
MaxNodes == 3
MaxEdges == 4
MaxConfigs == 3

----------------------------------------------------------------------------
(* Python str / os.path operations used by the builder and the analyzer *)

Min(a, b) == IF a < b THEN a ELSE b

\* the sequences over S of length at most n
RECURSIVE SeqsUpTo(_, _)
SeqsUpTo(S, n) ==
    IF n = 0 THEN {<<>>}
    ELSE LET shorter == SeqsUpTo(S, n - 1)
         IN  shorter \cup {Append(q, x) : q \in shorter, x \in S}

Range(s) == {s[i] : i \in 1..Len(s)}

\* s.startswith(p)
StartsWith(s, p) == Len(p) <= Len(s) /\ SubSeq(s, 1, Len(p)) = p

\* s.endswith(p)
EndsWith(s, p) == Len(p) <= Len(s) /\ SubSeq(s, Len(s) - Len(p) + 1, Len(s)) = p

\* s.find(sub, from): least index >= from where sub occurs, 0 if none
FindFrom(s, sub, from) ==
    LET found == {i \in from..(Len(s) - Len(sub) + 1) :
                     SubSeq(s, i, i + Len(sub) - 1) = sub}
    IN  IF found = {} THEN 0 ELSE CHOOSE i \in found : \A j \in found : i <= j

\* Python `sub in s`
StrIn(sub, s) == FindFrom(s, sub, 1) # 0

\* s.replace(old, new) for a non-empty old: leftmost, non-overlapping
RECURSIVE Replace(_, _, _)
Replace(s, old, new) ==
    LET i == FindFrom(s, old, 1)
    IN  IF i = 0 THEN s
        ELSE SubSeq(s, 1, i - 1) \o new
             \o Replace(SubSeq(s, i + Len(old), Len(s)), old, new)

\* s.split(sep) for a non-empty sep
RECURSIVE Split(_, _)
Split(s, sep) ==
    LET i == FindFrom(s, sep, 1)
    IN  IF i = 0 THEN <<s>>
        ELSE <<SubSeq(s, 1, i - 1)>> \o Split(SubSeq(s, i + Len(sep), Len(s)), sep)

\* sep.join(parts)
RECURSIVE Join(_, _)
Join(parts, sep) ==
    IF Len(parts) = 0 THEN ""
    ELSE IF Len(parts) = 1 THEN parts[1]
    ELSE parts[1] \o sep \o Join(Tail(parts), sep)

\* index of the last '/' of p, 0 if none
RECURSIVE LastSep(_, _)
LastSep(p, i) ==
    IF i = 0 THEN 0
    ELSE IF SubSeq(p, i, i) = "/" THEN i
    ELSE LastSep(p, i - 1)

\* os.path.basename
Basename(p) == SubSeq(p, LastSep(p, Len(p)) + 1, Len(p))

\* posixpath.dirname: the head up to the last '/', trailing slashes stripped
\* unless the head is all slashes
RECURSIVE RStripSep(_)
RStripSep(h) ==
    IF Len(h) > 0 /\ SubSeq(h, Len(h), Len(h)) = "/"
    THEN RStripSep(SubSeq(h, 1, Len(h) - 1))
    ELSE h

Dirname(p) ==
    LET h == SubSeq(p, 1, LastSep(p, Len(p)))
    IN  IF RStripSep(h) = "" THEN h ELSE RStripSep(h)

\* posixpath.join(a, b)
PathJoin(a, b) ==
    IF StartsWith(b, "/") THEN b
    ELSE IF a = "" \/ EndsWith(a, "/") THEN a \o b
    ELSE a \o "/" \o b

\* the characters str.strip() removes
Whitespace == {" ", "\t", "\n", "\r"}

\* s.lstrip()
RECURSIVE LStrip(_)
LStrip(s) ==
    IF Len(s) > 0 /\ SubSeq(s, 1, 1) \in Whitespace THEN LStrip(SubSeq(s, 2, Len(s))) ELSE s

\* s.rstrip()
RECURSIVE RStrip(_)
RStrip(s) ==
    IF Len(s) > 0 /\ SubSeq(s, Len(s), Len(s)) \in Whitespace
    THEN RStrip(SubSeq(s, 1, Len(s) - 1))
    ELSE s

\* s.strip()
Strip(s) == LStrip(RStrip(s))

\* s.count(sub) for a one-character sub
RECURSIVE Count(_, _)
Count(s, sub) ==
    LET i == FindFrom(s, sub, 1)
    IN  IF i = 0 THEN 0 ELSE 1 + Count(SubSeq(s, i + 1, Len(s)), sub)

----------------------------------------------------------------------------
(* Source files and the parsers.                                            *)
(*                                                                          *)
(* A discovered file is [path, language, access, syntax_ok, content, stmts]:*)
(* access is what opening and reading the file does ("ok", "undecodable":   *)
(* the bytes are not UTF-8, "unreadable": open() raises OSError), stmts is  *)
(* the statements of the text (its syntax tree when syntax_ok; a text with  *)
(* a syntax error has no tree).  A statement is [kind, name, module, level, names, calls,     *)
(* body]; a call expression is [func, value, id, attr].                     *)

None == ""

Stmt(kind, name, module, level, names, calls, body) ==
    [kind |-> kind, name |-> name, module |-> module, level |-> level,
     names |-> names, calls |-> calls, body |-> body, doc |-> None, lineno |-> 0,
     init |-> None]

\* the statement with its docstring and the line it starts on
Documented(stmt, doc, lineno) == [stmt EXCEPT !.doc = doc, !.lineno = lineno]

\* a string literal standing alone as the first statement of a module
PyModuleDocstring(doc) ==
    Documented(Stmt("Expr", None, None, 0, <<>>, <<>>, <<>>), doc, 1)

\* import a, b
PyImport(names) == Stmt("Import", None, None, 0, names, <<>>, <<>>)
\* from <level dots><module> import names   (module None for `from . import x`)
PyImportFrom(module, level, names) == Stmt("ImportFrom", None, module, level, names, <<>>, <<>>)
PyFunctionDef(name, calls, body) == Stmt("FunctionDef", name, None, 0, <<>>, calls, body)
PyClassDef(name, body) == Stmt("ClassDef", name, None, 0, <<>>, <<>>, body)

\* import {names} from 'module'
JsImportDeclaration(module, names) == Stmt("ImportDeclaration", None, module, 0, names, <<>>, <<>>)
\* function name() {...}; the name is None when the declaration has no id
\* (export default function () {...})
JsFunctionDeclaration(name, calls, body) ==
    Stmt("FunctionDeclaration", name, None, 0, <<>>, calls, body)
\* class name {...}
JsClassDeclaration(name, body) == Stmt("ClassDeclaration", name, None, 0, <<>>, <<>>, body)
\* name(...) {...} in a class body
JsMethodDefinition(name, calls) == Stmt("MethodDefinition", name, None, 0, <<>>, calls, <<>>)
\* let name;  (the declarator's init is null)
JsLet(name) == Stmt("VariableDeclaration", name, None, 0, <<>>, <<>>, <<>>)
\* const name = require('module')
JsRequire(name, module) ==
    [Stmt("VariableDeclaration", name, module, 0, <<name>>, <<>>, <<>>)
        EXCEPT !.init = "CallExpression"]
\* const name = (...) => {...}
JsArrowFunction(name, calls) ==
    [Stmt("VariableDeclaration", name, None, 0, <<>>, calls, <<>>)
        EXCEPT !.init = "ArrowFunctionExpression"]

\* a compound statement (if, for, while, with, try, ...) with the statements
\* below it
Compound(kind, calls, body) == Stmt(kind, None, None, 0, <<>>, calls, body)
\* the If node an elif clause becomes: it stands alone in the orelse of the
\* If it continues.  Likewise the IfStatement of an else-if.
ChainedIf(kind, calls, body) == [Compound(kind, calls, body) EXCEPT !.name = "elif"]

\* const name = (...) => { body }
JsArrowFunctionWith(name, calls, body) == [JsArrowFunction(name, calls) EXCEPT !.body = body]

\* f(...)
CallName(id) == [func |-> "Name", value |-> None, id |-> id, attr |-> None]
\* obj.attr(...)
CallAttr(obj, attr) == [func |-> "Attribute", value |-> "Name", id |-> obj, attr |-> attr]
\* <expression>.attr(...) where the expression is no bare name
CallDeep(attr) == [func |-> "Attribute", value |-> "Other", id |-> None, attr |-> attr]

\* dataclass Import
Import(module, names) == [module |-> module, names |-> names]

\* dataclass Definition
Definition(name, type, parent, calls, nesting_depth) ==
    [name |-> name, type |-> type, parent |-> parent, calls |-> calls,
     nesting_depth |-> nesting_depth]

\* dataclass Comment
Comment(text, line, is_docstring, parent_entity) ==
    [text |-> text, line |-> line, is_docstring |-> is_docstring,
     parent_entity |-> parent_entity]

\* dataclass ParsedFile
ParsedFile(file_path, language, raw_content, lines_of_code) ==
    [file_path |-> file_path, language |-> language, imports |-> <<>>,
     definitions |-> <<>>, comments |-> <<>>, lines_of_code |-> lines_of_code,
     raw_content |-> raw_content]

\* the test of BaseParser._count_lines on one line
IsCodeLine(line) ==
    /\ Strip(line) # ""
    /\ ~StartsWith(Strip(line), "#")
    /\ ~StartsWith(Strip(line), "//")

\* BaseParser._count_lines
CountLines(content) == Len(SelectSeq(Split(content, "\n"), IsCodeLine))

\* the text read from a file whose bytes are not UTF-8, decoded as latin-1
Latin1(content) == "latin1:" \o content

\* BaseParser._read_file: [raised, content]
ReadFile(f) ==
    IF f.access = "unreadable" THEN [raised |-> TRUE, content |-> ""]
    ELSE IF f.access = "undecodable" THEN [raised |-> FALSE, content |-> Latin1(f.content)]
    ELSE [raised |-> FALSE, content |-> f.content]

\* ast.walk over statements: breadth first
RECURSIVE Walk(_)
Walk(queue) ==
    IF queue = <<>> THEN <<>>
    ELSE <<Head(queue)>> \o Walk(Tail(queue) \o Head(queue).body)

\* the Import records one statement contributes in PythonParser._extract_imports
PyImportsOf(node) ==
    IF node.kind = "Import"
    THEN [i \in 1..Len(node.names) |-> Import(node.names[i], <<node.names[i]>>)]
    ELSE IF node.kind = "ImportFrom" /\ node.module # None
         THEN <<Import(node.module, node.names)>>
         ELSE <<>>

\* the concatenation of a list of lists (list.append / list.extend in a loop)
RECURSIVE Flatten(_)
Flatten(xss) == IF xss = <<>> THEN <<>> ELSE Head(xss) \o Flatten(Tail(xss))

\* PythonParser._extract_imports
PyExtractImports(tree) ==
    LET nodes == Walk(tree)
    IN  Flatten([i \in 1..Len(nodes) |-> PyImportsOf(nodes[i])])

\* a Python parser that records nothing for a deeper chain, as the JS/TS
\* parser does
PyCallTargetOneLevel(call) ==
    IF call.func = "Name" THEN <<call.id>>
    ELSE IF call.value = "Name" THEN <<call.id \o "." \o call.attr>>
    ELSE <<>>

\* the target string recorded for one call expression (Python)
PyCallTarget(call) ==
    IF call.func = "Name" THEN <<call.id>>
    ELSE IF call.value = "Name" THEN <<call.id \o "." \o call.attr>>
    ELSE <<call.attr>>

\* DefinitionVisitor._extract_calls: every call below the definition
PyExtractCalls(node) ==
    LET nodes == Walk(<<node>>)
        calls == Flatten([i \in 1..Len(nodes) |-> nodes[i].calls])
    IN  Flatten([i \in 1..Len(calls) |-> PyCallTarget(calls[i])])

\* isinstance(n, (ast.If, ast.For, ast.While, ast.With, ast.Try))
PyNestingKinds == {"If", "For", "While", "With", "Try"}

\* calculate_depth over the children of a node visited at current_depth
RECURSIVE PyCalculateDepth(_, _)
PyCalculateDepth(stmts, current_depth) ==
    IF stmts = <<>> THEN current_depth
    ELSE LET n == Head(stmts)
             below == IF n.kind \in PyNestingKinds
                      THEN current_depth + 1 ELSE current_depth
             here == PyCalculateDepth(n.body, below)
             rest == PyCalculateDepth(Tail(stmts), current_depth)
         IN  IF here > rest THEN here ELSE rest

\* DefinitionVisitor._calculate_nesting
PyCalculateNesting(node) == PyCalculateDepth(node.body, 0)

\* DefinitionVisitor.visit over a statement list
RECURSIVE PyVisit(_, _)
PyVisit(stmts, current_class) ==
    IF stmts = <<>> THEN <<>>
    ELSE LET node == Head(stmts)
             here ==
                 IF node.kind = "ClassDef"
                 THEN <<Definition(node.name, "class", current_class, <<>>, 0)>>
                      \o PyVisit(node.body, node.name)
                 ELSE IF node.kind = "FunctionDef"
                 THEN <<Definition(node.name,
                                   IF current_class # None THEN "method" ELSE "function",
                                   current_class, PyExtractCalls(node), PyCalculateNesting(node))>>
                 ELSE PyVisit(node.body, current_class)
         IN  here \o PyVisit(Tail(stmts), current_class)

\* PythonParser._extract_definitions
PyExtractDefinitions(tree) == PyVisit(tree, None)

\* the Comment one line of the text contributes (regular comments)
PyLineComment(line, i) ==
    IF StartsWith(Strip(line), "#")
    THEN <<Comment(Strip(SubSeq(Strip(line), 2, Len(Strip(line)))), i, FALSE, None)>>
    ELSE <<>>

\* the Comment one node contributes (docstrings of functions and classes)
PyDocstringOf(node) ==
    IF node.kind \in {"FunctionDef", "ClassDef"} /\ node.doc # None
    THEN <<Comment(node.doc, node.lineno, TRUE, node.name)>>
    ELSE <<>>

\* the Comment of the module node, which ast.walk yields first
PyModuleDocstringOf(tree) ==
    IF tree # <<>> /\ Head(tree).kind = "Expr" /\ Head(tree).doc # None
    THEN <<Comment(Head(tree).doc, 1, TRUE, None)>>
    ELSE <<>>

\* PythonParser._extract_comments
PyExtractComments(content, tree) ==
    LET lines == Split(content, "\n")
        nodes == Walk(tree)
    IN  Flatten([i \in 1..Len(lines) |-> PyLineComment(lines[i], i)])
        \o PyModuleDocstringOf(tree)
        \o Flatten([i \in 1..Len(nodes) |-> PyDocstringOf(nodes[i])])

\* parse_file without the except SyntaxError clause
PyParseFileUnguarded(f) ==
    LET read == ReadFile(f)
        parsed == ParsedFile(f.path, "python", read.content, CountLines(read.content))
    IN  IF read.raised \/ ~f.syntax_ok THEN [raised |-> TRUE, parsed |-> parsed]
        ELSE [raised |-> FALSE,
              parsed |-> [parsed EXCEPT !.imports = PyExtractImports(f.stmts),
                                        !.definitions = PyExtractDefinitions(f.stmts),
                                        !.comments = PyExtractComments(read.content, f.stmts)]]

\* PythonParser.parse_file: [raised, parsed]; a text with a syntax error makes
\* ast.parse raise SyntaxError before anything is extracted
PyParseFile(f) ==
    LET read == ReadFile(f)
        parsed == ParsedFile(f.path, "python", read.content, CountLines(read.content))
    IN  IF read.raised THEN [raised |-> TRUE, parsed |-> parsed]
        ELSE IF ~f.syntax_ok THEN [raised |-> FALSE, parsed |-> parsed]
        ELSE [raised |-> FALSE,
              parsed |-> [parsed EXCEPT !.imports = PyExtractImports(f.stmts),
                                        !.definitions = PyExtractDefinitions(f.stmts),
                                        !.comments = PyExtractComments(read.content, f.stmts)]]

\* what isinstance(node, dict) answers for the nodes of the tree that
\* esprima.parseModule returned for the file
JsIsDictAlways(f) == TRUE

JsIsDict(f) == f.tree = "dict"

\* the part of the tree the visit_node functions enter
JsTree(f) == IF JsIsDict(f) THEN f.stmts ELSE <<>>

\* visit_node of _extract_imports: every dict below the tree, depth first
RECURSIVE JsWalk(_)
JsWalk(stmts) ==
    IF stmts = <<>> THEN <<>>
    ELSE <<Head(stmts)>> \o JsWalk(Head(stmts).body) \o JsWalk(Tail(stmts))

\* the Import records one node contributes in JavaScriptParser._extract_imports
JsImportsOf(node) ==
    IF node.kind = "ImportDeclaration" /\ node.names # <<>>
    THEN <<Import(node.module, node.names)>>
    ELSE IF node.kind = "VariableDeclaration" /\ node.init = "CallExpression"
    THEN <<Import(node.module, node.names)>>
    ELSE <<>>

\* JavaScriptParser._extract_imports
JsExtractImports(tree) ==
    LET nodes == JsWalk(tree)
    IN  Flatten([i \in 1..Len(nodes) |-> JsImportsOf(nodes[i])])

\* _extract_imports raises: init.get on a declarator whose init is None
JsExtractImportsRaises(tree) ==
    \E node \in Range(JsWalk(tree)) :
        node.kind = "VariableDeclaration" /\ node.init = None

\* the target string recorded for one call expression (JS/TS)
JsCallTarget(call) ==
    IF call.func = "Name" THEN <<call.id>>
    ELSE IF call.value = "Name" THEN <<call.id \o "." \o call.attr>>
    ELSE <<>>

\* JavaScriptParser._extract_calls
JsExtractCalls(node) ==
    LET nodes == JsWalk(<<node>>)
        calls == Flatten([i \in 1..Len(nodes) |-> nodes[i].calls])
    IN  Flatten([i \in 1..Len(calls) |-> JsCallTarget(calls[i])])

JsNestingKinds ==
    {"IfStatement", "ForStatement", "WhileStatement", "DoWhileStatement",
     "SwitchStatement", "TryStatement"}

\* visit of _calculate_nesting over the children of a node visited at depth
RECURSIVE JsNestingVisit(_, _)
JsNestingVisit(stmts, depth) ==
    IF stmts = <<>> THEN depth
    ELSE LET n == Head(stmts)
             below == IF n.kind \in JsNestingKinds THEN depth + 1 ELSE depth
             here == JsNestingVisit(n.body, below)
             rest == JsNestingVisit(Tail(stmts), depth)
         IN  IF here > rest THEN here ELSE rest

\* JavaScriptParser._calculate_nesting
JsCalculateNesting(node) == JsNestingVisit(node.body, 0)

\* JavaScriptParser._extract_definitions over a statement list
RECURSIVE JsVisit(_, _)
JsVisit(stmts, parent_class) ==
    IF stmts = <<>> THEN <<>>
    ELSE LET node == Head(stmts)
             here ==
                 IF node.kind = "ClassDeclaration"
                 THEN <<Definition(node.name, "class", parent_class, <<>>, 0)>>
                      \o JsVisit(node.body, node.name)
                 ELSE IF node.kind = "FunctionDeclaration"
                 THEN <<Definition(node.name,
                                   IF parent_class # None THEN "method" ELSE "function",
                                   parent_class, JsExtractCalls(node), JsCalculateNesting(node))>>
                 ELSE IF node.kind = "MethodDefinition"
                 THEN <<Definition(node.name, "method", parent_class, JsExtractCalls(node), JsCalculateNesting(node))>>
                 ELSE IF node.kind = "VariableDeclaration"
                         /\ node.init \in {"FunctionExpression", "ArrowFunctionExpression"}
                         /\ node.name # None
                 THEN <<Definition(node.name, "function", None, JsExtractCalls(node), JsCalculateNesting(node))>>
                      \o JsVisit(node.body, parent_class)
                 ELSE JsVisit(node.body, parent_class)
         IN  here \o JsVisit(Tail(stmts), parent_class)

JsExtractDefinitions(tree) == JsVisit(tree, None)

\* the nodes visit_node of _extract_definitions enters: it goes below classes
\* and plain statements, never below a function or a method
RECURSIVE JsVisited(_)
JsVisited(stmts) ==
    IF stmts = <<>> THEN <<>>
    ELSE <<Head(stmts)>>
         \o (IF Head(stmts).kind \in {"FunctionDeclaration", "MethodDefinition"}
             THEN <<>> ELSE JsVisited(Head(stmts).body))
         \o JsVisited(Tail(stmts))

\* _extract_definitions raises: node.get('id', {}).get on a declaration
\* whose id is None, or init.get on a declarator whose init is None
JsExtractDefinitionsRaises(tree) ==
    \E node \in Range(JsVisited(tree)) :
        \/ node.kind \in {"FunctionDeclaration", "ClassDeclaration"} /\ node.name = None
        \/ node.kind = "VariableDeclaration" /\ node.init = None

\* the comments esprima collects from a text, in source order: [type, value, line]
RECURSIVE JsScanComments(_, _)
JsScanComments(s, i) ==
    IF i >= Len(s) THEN <<>>
    ELSE IF SubSeq(s, i, i + 1) = "//"
    THEN LET nl == FindFrom(s, "\n", i)
             end == IF nl = 0 THEN Len(s) + 1 ELSE nl
         IN  <<[type |-> "Line", value |-> SubSeq(s, i + 2, end - 1),
                line |-> Count(SubSeq(s, 1, i - 1), "\n") + 1]>>
             \o JsScanComments(s, end)
    ELSE IF SubSeq(s, i, i + 1) = "/*" /\ FindFrom(s, "*/", i + 2) # 0
    THEN LET close == FindFrom(s, "*/", i + 2)
         IN  <<[type |-> "Block", value |-> SubSeq(s, i + 2, close - 1),
                line |-> Count(SubSeq(s, 1, i - 1), "\n") + 1]>>
             \o JsScanComments(s, close + 2)
    ELSE LET slash == FindFrom(s, "/", i + 1)
         IN  IF slash = 0 THEN <<>> ELSE JsScanComments(s, slash)

\* the Comment built from one entry of tree.comments
JsCommentOf(c) ==
    Comment(Strip(c.value), c.line,
            c.type = "Block" /\ (StartsWith(Strip(c.value), "*") \/ StartsWith(Strip(c.value), "!")),
            None)

\* JavaScriptParser._extract_comments.  A dict has no attribute `comments`;
\* a node object has one, and its entries answer .get only when they are
\* mappings
JsExtractComments(f, content) ==
    LET cs == JsScanComments(content, 1)
    IN  IF f.tree = "node_mapping_comments"
        THEN [i \in 1..Len(cs) |-> JsCommentOf(cs[i])]
        ELSE <<>>

\* _extract_comments raises: comment.get on an entry that is no mapping
JsExtractCommentsRaises(f, content) ==
    f.tree = "node" /\ JsScanComments(content, 1) # <<>>

\* JavaScriptParser._extract_imports_regex: the import statements of the text
\* that the ES6 pattern matches, then those the require pattern matches,
\* wherever they stand
JsExtractImportsRegex(f) ==
    LET nodes == JsWalk(f.stmts)
        es6 == SelectSeq(nodes, LAMBDA n : n.kind = "ImportDeclaration")
        req == SelectSeq(nodes, LAMBDA n : n.kind = "VariableDeclaration")
    IN  Flatten([i \in 1..Len(es6) |-> JsImportsOf(es6[i])])
        \o Flatten([i \in 1..Len(req) |-> JsImportsOf(req[i])])

\* the Comment one line of the text contributes in _extract_comments_regex
JsLineComment(line, i) ==
    IF StartsWith(Strip(line), "//")
    THEN <<Comment(Strip(SubSeq(Strip(line), 3, Len(Strip(line)))), i, FALSE, None)>>
    ELSE <<>>

\* re.finditer(r'/\*\*?(.*?)\*/', content, re.DOTALL) from index i on
RECURSIVE JsBlockComments(_, _)
JsBlockComments(s, i) ==
    LET open == FindFrom(s, "/*", i)
        star == SubSeq(s, open + 2, open + 2) = "*"
        after == IF star /\ FindFrom(s, "*/", open + 3) # 0 THEN open + 3 ELSE open + 2
        close == FindFrom(s, "*/", after)
    IN  IF open = 0 THEN <<>>
        ELSE IF close = 0 THEN JsBlockComments(s, open + 1)
        ELSE <<Comment(Strip(SubSeq(s, after, close - 1)),
                       Count(SubSeq(s, 1, open - 1), "\n") + 1, star, None)>>
             \o JsBlockComments(s, close + 2)

\* JavaScriptParser._extract_comments_regex
JsExtractCommentsRegex(content) ==
    LET lines == Split(content, "\n")
    IN  Flatten([i \in 1..Len(lines) |-> JsLineComment(lines[i], i)])
        \o JsBlockComments(content, 1)

\* JavaScriptParser.parse_file: [raised, parsed].  The try block assigns
\* imports, definitions and comments one after the other; the except clause
\* then overwrites imports and comments and leaves definitions as it stands
JsParseFile(f) ==
    LET read == ReadFile(f)
        language == IF EndsWith(f.path, ".ts") \/ EndsWith(f.path, ".tsx")
                    THEN "typescript" ELSE "javascript"
        parsed == ParsedFile(f.path, language, read.content, CountLines(read.content))
        tree == JsTree(f)
        with_imports == [parsed EXCEPT !.imports = JsExtractImports(tree)]
        with_definitions == [with_imports EXCEPT !.definitions = JsExtractDefinitions(tree)]
        with_comments ==
            [with_definitions EXCEPT !.comments = JsExtractComments(f, read.content)]
        Except(p) == [p EXCEPT !.imports = JsExtractImportsRegex(f),
                               !.comments = JsExtractCommentsRegex(read.content)]
    IN  IF read.raised THEN [raised |-> TRUE, parsed |-> parsed]
        ELSE [raised |-> FALSE,
              parsed |->
                 IF ~f.syntax_ok THEN Except(parsed)
                 ELSE IF JsExtractImportsRaises(tree) THEN Except(parsed)
                 ELSE IF JsExtractDefinitionsRaises(tree) THEN Except(with_imports)
                 ELSE IF JsExtractCommentsRaises(f, read.content) THEN Except(with_definitions)
                 ELSE with_comments]

\* the dispatch of cli.analyze on file_info.language
ParseFile(f) == IF f.language = "python" THEN PyParseFile(f) ELSE JsParseFile(f)

----------------------------------------------------------------------------
(* networkx.DiGraph as the builder and the analyzer use it.  A graph object *)
(* is a record: nodes in insertion order, the edge set, the attributes a    *)
(* node was added with, and the in_cycle attribute of nodes and edges as    *)
(* dictionaries (a key that is absent is an attribute that was never set).  *)

EmptyGraph ==
    [nodes |-> <<>>, edges |-> {}, node_data |-> <<>>,
     node_in_cycle |-> <<>>, edge_in_cycle |-> <<>>]

\* nx.DiGraph.clear: nodes, edges and every attribute go
GraphClearKeeps(g) == g

GraphClear(g) == EmptyGraph

\* add_node / add_edge of everything in `built` on the graph object g: a
\* node or edge g holds already stays, with the attributes given now and
\* those it had that are not given now (in_cycle)
GraphAddAll(g, built) ==
    LET nodes == g.nodes \o SelectSeq(built.nodes, LAMBDA n : n \notin Range(g.nodes))
    IN  [nodes |-> nodes,
         edges |-> g.edges \cup built.edges,
         node_data |-> [n \in Range(nodes) |->
                           IF n \in Range(built.nodes) THEN built.node_data[n]
                           ELSE g.node_data[n]],
         node_in_cycle |-> g.node_in_cycle,
         edge_in_cycle |-> g.edge_in_cycle]

NodeSet(g) == Range(g.nodes)

\* graph.has_edge(u, v)
HasEdge(g, u, v) == <<u, v>> \in g.edges

\* graph.in_degree(node): number of incoming edges, a self-loop included
InDegree(g, node) == Cardinality({e \in g.edges : e[2] = node})

\* graph.successors(node), in node order
Successors(g, v) == SelectSeq(g.nodes, LAMBDA w : HasEdge(g, v, w))

\* position of a node in the node order
NodeIndex(g, v) == CHOOSE i \in 1..Len(g.nodes) : g.nodes[i] = v

\* nx.simple_cycles: depth-first enumeration of the elementary circuits.
\* Each circuit is reported from its first node in node order; a self-loop is
\* the circuit <<v>>.
RECURSIVE CircuitsVia(_, _, _, _)
CircuitsVia(g, start, path, succs) ==
    IF succs = <<>> THEN <<>>
    ELSE LET w == Head(succs)
             found ==
                 IF w = start THEN <<path>>
                 ELSE IF NodeIndex(g, w) > NodeIndex(g, start) /\ w \notin Range(path)
                      THEN CircuitsVia(g, start, Append(path, w), Successors(g, w))
                      ELSE <<>>
         IN  found \o CircuitsVia(g, start, path, Tail(succs))

RECURSIVE CircuitsFrom(_, _)
CircuitsFrom(g, starts) ==
    IF starts = <<>> THEN <<>>
    ELSE CircuitsVia(g, Head(starts), <<Head(starts)>>, Successors(g, Head(starts)))
         \o CircuitsFrom(g, Tail(starts))

SimpleCycles(g) == CircuitsFrom(g, g.nodes)

\* list.sort(key=len): stable insertion of c into a list sorted by length
RECURSIVE InsertByLen(_, _)
InsertByLen(sorted, c) ==
    IF sorted = <<>> THEN <<c>>
    ELSE IF Len(Head(sorted)) <= Len(c)
         THEN <<Head(sorted)>> \o InsertByLen(Tail(sorted), c)
         ELSE <<c>> \o sorted

RECURSIVE SortByLen(_)
SortByLen(cs) ==
    IF cs = <<>> THEN <<>>
    ELSE InsertByLen(SortByLen(SubSeq(cs, 1, Len(cs) - 1)), cs[Len(cs)])

\* a filter that lets the length-1 circuits through
KeepCycleAny(c) == Len(c) > 0

\* the filter of find_circular_dependencies: len(c) > 1
KeepCycle(c) == Len(c) > 1

\* the cycles left in enumeration order
OrderCyclesUnsorted(cs) == cs

\* the ordering step of find_circular_dependencies: cycles.sort(key=len)
OrderCycles(cs) == SortByLen(cs)

\* GraphAnalyzer.find_circular_dependencies
FindCircularDependencies(g) == OrderCycles(SelectSeq(SimpleCycles(g), KeepCycle))

\* an entry-point test by equality instead of containment
IsEntryPointExact(node, entry_points) ==
    \E i \in 1..Len(entry_points) : entry_points[i] = node

\* any(ep in node for ep in entry_points)
IsEntryPoint(node, entry_points) ==
    \E i \in 1..Len(entry_points) : StrIn(entry_points[i], node)

\* GraphAnalyzer.find_stranded_nodes; entry_points is [none, items], none
\* standing for the default argument None
FindStrandedNodes(g, entry_points) ==
    LET eps == IF entry_points.none THEN <<>> ELSE entry_points.items
    IN  SelectSeq(g.nodes,
                  LAMBDA node : InDegree(g, node) = 0 /\ ~IsEntryPoint(node, eps))

\* the steps cycle[i] -> cycle[(i + 1) % len(cycle)] of a cycle
CycleSteps(c) == {<<c[i], c[(i % Len(c)) + 1]>> : i \in 1..Len(c)}

\* node flags patched incrementally: only the nodes on a cycle are written
MarkedNodesPatched(g, cycles) ==
    LET nodes_in_cycles == UNION {Range(cycles[k]) : k \in 1..Len(cycles)}
    IN  [node \in (DOMAIN g.node_in_cycle) \cup nodes_in_cycles |->
            IF node \in nodes_in_cycles THEN TRUE ELSE g.node_in_cycle[node]]

\* the node flags mark_cycles writes
MarkedNodes(g, cycles) ==
    LET nodes_in_cycles == UNION {Range(cycles[k]) : k \in 1..Len(cycles)}
    IN  [node \in NodeSet(g) |-> node \in nodes_in_cycles]

\* the edge flags after mark_cycles: True on every existing step of a
\* returned cycle, every other entry as it was
MarkedEdges(g, cycles) ==
    LET steps == {e \in UNION {CycleSteps(cycles[k]) : k \in 1..Len(cycles)} :
                     HasEdge(g, e[1], e[2])}
    IN  [e \in (DOMAIN g.edge_in_cycle) \cup steps |->
            IF e \in steps THEN TRUE ELSE g.edge_in_cycle[e]]

\* mark_cycles re-adding every node, which drops what the node was added with
MarkCyclesReplacingNodes(g) ==
    LET cycles == FindCircularDependencies(g)
    IN  [g EXCEPT !.node_data = [n \in NodeSet(g) |-> <<>>],
                  !.node_in_cycle = MarkedNodes(g, cycles),
                  !.edge_in_cycle = MarkedEdges(g, cycles)]

\* GraphAnalyzer.mark_cycles
MarkCycles(g) ==
    LET cycles == FindCircularDependencies(g)
    IN  [g EXCEPT !.node_in_cycle = MarkedNodes(g, cycles),
                  !.edge_in_cycle = MarkedEdges(g, cycles)]

\* node_data.get('in_cycle', False) / edge_data.get('in_cycle', False)
NodeInCycle(g, n) == IF n \in DOMAIN g.node_in_cycle THEN g.node_in_cycle[n] ELSE FALSE
EdgeInCycle(g, e) == IF e \in DOMAIN g.edge_in_cycle THEN g.edge_in_cycle[e] ELSE FALSE

\* graph.out_degree(node)
OutDegree(g, node) == Cardinality({e \in g.edges : e[1] = node})

\* GraphAnalyzer.find_isolated_nodes
FindIsolatedNodes(g) ==
    SelectSeq(g.nodes, LAMBDA node : InDegree(g, node) = 0 /\ OutDegree(g, node) = 0)

\* breadth-first search: the nodes first met after 0, 1, 2, ... steps
RECURSIVE Levels(_, _, _)
Levels(g, seen, frontier) ==
    IF frontier = {} THEN <<>>
    ELSE <<frontier>>
         \o Levels(g, seen \cup frontier,
                   {w \in NodeSet(g) : \E u \in frontier : HasEdge(g, u, w)}
                       \ (seen \cup frontier))

\* the length of a shortest path from s to t, -1 if t is out of reach
Dist(g, s, t) ==
    LET levels == Levels(g, {}, {s})
    IN  IF \E k \in 1..Len(levels) : t \in levels[k]
        THEN (CHOOSE k \in 1..Len(levels) : t \in levels[k]) - 1
        ELSE -1

\* the distances as a table of one entry <<s, t, d>> per ordered pair
DistTable(g) == {<<s, t, Dist(g, s, t)>> : s \in NodeSet(g), t \in NodeSet(g)}

\* the number a table holds for a pair
Entry(table, s, t) == (CHOOSE x \in table : x[1] = s /\ x[2] = t)[3]

\* the number of shortest paths from s to t, given the distances
RECURSIVE Sigma(_, _, _, _)
Sigma(g, dist, s, t) ==
    IF s = t THEN 1
    ELSE LET via == {u \in NodeSet(g) :
                        /\ HasEdge(g, u, t)
                        /\ Entry(dist, s, u) >= 0
                        /\ Entry(dist, s, u) + 1 = Entry(dist, s, t)}
             RECURSIVE Sum(_)
             Sum(U) == IF U = {} THEN 0
                       ELSE LET u == CHOOSE x \in U : TRUE
                            IN  Sigma(g, dist, s, u) + Sum(U \ {u})
         IN  Sum(via)

\* the path counts as a table
SigmaTable(g, dist) ==
    {<<s, t, Sigma(g, dist, s, t)>> : s \in NodeSet(g), t \in NodeSet(g)}

RECURSIVE Gcd(_, _)
Gcd(a, b) == IF b = 0 THEN a ELSE Gcd(b, a % b)

\* a fraction in lowest terms, <<numerator, denominator>>
Fraction(n, d) == IF n = 0 THEN <<0, 1>> ELSE <<n \div Gcd(n, d), d \div Gcd(n, d)>>

FractionAdd(a, b) == Fraction(a[1] * b[2] + b[1] * a[2], a[2] * b[2])

\* the share of the shortest s-t paths that pass through v
PairDependency(dist, sigma, s, t, v) ==
    IF /\ Entry(dist, s, t) > 0
       /\ Entry(dist, s, v) > 0
       /\ Entry(dist, v, t) > 0
       /\ Entry(dist, s, v) + Entry(dist, v, t) = Entry(dist, s, t)
    THEN Fraction(Entry(sigma, s, v) * Entry(sigma, v, t), Entry(sigma, s, t))
    ELSE <<0, 1>>

\* nx.betweenness_centrality of one node of a directed graph: the sum over
\* the ordered pairs, scaled by 1/((n-1)(n-2)) when the graph has more than
\* two nodes
Betweenness(g, dist, sigma, v) ==
    LET pairs == {p \in NodeSet(g) \X NodeSet(g) : p[1] # p[2] /\ p[1] # v /\ p[2] # v}
        RECURSIVE Sum(_)
        Sum(P) == IF P = {} THEN <<0, 1>>
                  ELSE LET p == CHOOSE x \in P : TRUE
                       IN  FractionAdd(PairDependency(dist, sigma, p[1], p[2], v),
                                       Sum(P \ {p}))
        n == Len(g.nodes)
        total == Sum(pairs)
    IN  IF n > 2 THEN Fraction(total[1], total[2] * (n - 1) * (n - 2)) ELSE total

\* GraphAnalyzer.calculate_centrality
CalculateCentrality(g) ==
    LET dist == DistTable(g)
        sigma == SigmaTable(g, dist)
    IN  [v \in NodeSet(g) |-> Betweenness(g, dist, sigma, v)]

\* graph.predecessors(node), in node order
Predecessors(g, v) == SelectSeq(g.nodes, LAMBDA u : HasEdge(g, u, v))

\* get_dependencies answering the dependents
GetDependenciesReversed(g, node) ==
    IF node \notin NodeSet(g) THEN {} ELSE Range(Predecessors(g, node))

\* GraphAnalyzer.get_dependencies
GetDependencies(g, node) ==
    IF node \notin NodeSet(g) THEN {} ELSE Range(Successors(g, node))

\* GraphAnalyzer.get_dependents
GetDependents(g, node) ==
    IF node \notin NodeSet(g) THEN {} ELSE Range(Predecessors(g, node))

\* GraphAnalyzer.get_node_data: a copy of the node's attribute dictionary,
\* the attributes it was added with and in_cycle once it is set
GetNodeData(g, node) ==
    IF node \notin NodeSet(g) THEN <<>>
    ELSE [data |-> g.node_data[node],
          in_cycle |-> IF node \in DOMAIN g.node_in_cycle
                       THEN <<g.node_in_cycle[node]>> ELSE <<>>]

\* node_data.get('cluster', 'unknown')
ClusterOf(g, node) ==
    IF "cluster" \in DOMAIN g.node_data[node] THEN g.node_data[node].cluster ELSE "unknown"

\* GraphAnalyzer.get_clusters
GetClusters(g) ==
    [c \in {ClusterOf(g, n) : n \in NodeSet(g)} |->
        SelectSeq(g.nodes, LAMBDA n : ClusterOf(g, n) = c)]

\* nx.DiGraph.remove_edge: the edge goes, and its attribute dictionary with it
RemoveEdgeFrom(g, e) ==
    [g EXCEPT !.edges = @ \ {e},
              !.edge_in_cycle = [x \in (DOMAIN @) \ {e} |-> @[x]]]

----------------------------------------------------------------------------
(* GraphBuilder *)

\* GraphBuilder.root_dir
RootDir == "/p"

\* GraphBuilder._get_relative_path
GetRelativePath(file_path) ==
    IF StartsWith(file_path, RootDir \o "/")
    THEN SubSeq(file_path, Len(RootDir) + 2, Len(file_path))
    ELSE Basename(file_path)

\* d[k] = v on a dictionary
DictSet(d, k, v) == [x \in (DOMAIN d) \cup {k} |-> IF x = k THEN v ELSE d[x]]

\* if k not in d: d[k] = v
DictSetDefault(d, k, v) == IF k \in DOMAIN d THEN d ELSE DictSet(d, k, v)

\* the first of the extensions .js .jsx .ts .tsx the path ends with, removed
StripJsExt(path) ==
    IF EndsWith(path, ".js") THEN SubSeq(path, 1, Len(path) - 3)
    ELSE IF EndsWith(path, ".jsx") THEN SubSeq(path, 1, Len(path) - 4)
    ELSE IF EndsWith(path, ".ts") THEN SubSeq(path, 1, Len(path) - 3)
    ELSE IF EndsWith(path, ".tsx") THEN SubSeq(path, 1, Len(path) - 4)
    ELSE path

\* the entries one file adds in GraphBuilder._create_module_mapping
MapFile(module_map, pf) ==
    LET rel_path == GetRelativePath(pf.file_path)
    IN  IF pf.language = "python"
        THEN LET module_name == Join(Split(Replace(rel_path, ".py", ""), "/"), ".")
                 filename == Replace(Basename(rel_path), ".py", "")
             IN  DictSetDefault(DictSet(module_map, module_name, rel_path), filename, rel_path)
        ELSE LET module_path == StripJsExt(rel_path)
                 filename == Basename(module_path)
             IN  DictSetDefault(
                     DictSet(DictSet(module_map, module_path, rel_path),
                             "./" \o module_path, rel_path),
                     filename, rel_path)

\* GraphBuilder._create_module_mapping
RECURSIVE MapFiles(_, _)
MapFiles(module_map, pfs) ==
    IF pfs = <<>> THEN module_map
    ELSE MapFiles(MapFile(module_map, Head(pfs)), Tail(pfs))

CreateModuleMapping(pfs) == MapFiles(<<>>, pfs)

\* the directory walk of a relative import, one path segment at a time
RECURSIVE WalkParts(_, _)
WalkParts(current_dir, parts) ==
    IF parts = <<>> THEN current_dir
    ELSE LET part == Head(parts)
         IN  WalkParts(IF part = "." THEN current_dir
                       ELSE IF part = ".." THEN Dirname(current_dir)
                       ELSE PathJoin(current_dir, part),
                       Tail(parts))

ProbeSuffixes == <<"", ".py", ".js", ".jsx", ".ts", ".tsx", "/index.js", "/index.ts">>

\* the first probed candidate found in the index
RECURSIVE Probe(_, _, _)
Probe(current_dir, exts, module_map) ==
    IF exts = <<>> THEN <<>>
    ELSE IF (current_dir \o Head(exts)) \in DOMAIN module_map
         THEN <<module_map[current_dir \o Head(exts)]>>
         ELSE Probe(current_dir, Tail(exts), module_map)

\* the partial-match fallback stopping at the first file that matches
PartialMatchesFirst(module, pfs) ==
    LET rels == [i \in 1..Len(pfs) |-> GetRelativePath(pfs[i].file_path)]
        hits == SelectSeq(rels, LAMBDA rel_path : StrIn(Replace(module, ".", "/"), rel_path))
    IN  SubSeq(hits, 1, Min(1, Len(hits)))

\* the partial-match fallback: every parsed file whose relative path
\* contains the module string with dots turned into separators
PartialMatches(module, pfs) ==
    LET rels == [i \in 1..Len(pfs) |-> GetRelativePath(pfs[i].file_path)]
    IN  SelectSeq(rels, LAMBDA rel_path : StrIn(Replace(module, ".", "/"), rel_path))

\* _resolve_import with the partial-match fallback also after a relative
\* reference that no probe found
ResolveImportFallsThrough(module, source_file, module_map, pfs) ==
    LET probed == Probe(WalkParts(Dirname(GetRelativePath(source_file)),
                                  Split(module, "/")),
                        ProbeSuffixes, module_map)
    IN  IF module \in DOMAIN module_map THEN <<module_map[module]>>
        ELSE IF StartsWith(module, ".") /\ probed # <<>> THEN probed
        ELSE PartialMatches(module, pfs)

\* GraphBuilder._resolve_import
ResolveImport(module, source_file, module_map, pfs) ==
    IF module \in DOMAIN module_map THEN <<module_map[module]>>
    ELSE IF StartsWith(module, ".")
    THEN Probe(WalkParts(Dirname(GetRelativePath(source_file)), Split(module, "/")),
               ProbeSuffixes, module_map)
    ELSE PartialMatches(module, pfs)

\* the node list after add_node for every element, in first-insertion order
RECURSIVE Dedup(_)
Dedup(xs) ==
    IF xs = <<>> THEN <<>>
    ELSE LET init == Dedup(SubSeq(xs, 1, Len(xs) - 1))
             x == xs[Len(xs)]
         IN  IF x \in Range(init) THEN init ELSE Append(init, x)

\* GraphBuilder._get_cluster
GetCluster(rel_path) == IF Dirname(rel_path) # "" THEN Dirname(rel_path) ELSE "."

\* the attributes build_file_graph gives the node of a parsed file
FileNodeData(pf) ==
    [file_path |-> pf.file_path, language |-> pf.language,
     lines_of_code |-> pf.lines_of_code,
     cluster |-> GetCluster(GetRelativePath(pf.file_path)),
     num_definitions |-> Len(pf.definitions), num_imports |-> Len(pf.imports)]

\* a file edge added for every resolved target, the source itself included
FileEdgeAdded(nodes, source, target) == target \in nodes

\* build_file_graph linking every import: one that resolves to no file gets
\* an edge to its module string, which add_edge makes a node
BuildFileGraphLinksUnresolved(pfs) ==
    LET module_to_file == CreateModuleMapping(pfs)
        rels == [i \in 1..Len(pfs) |-> GetRelativePath(pfs[i].file_path)]
        targets(pf) ==
            Flatten([k \in 1..Len(pf.imports) |->
                LET r == ResolveImport(pf.imports[k].module, pf.file_path,
                                       module_to_file, pfs)
                IN  IF r = <<>> THEN <<pf.imports[k].module>> ELSE r])
        nodes == Dedup(rels \o Flatten([i \in 1..Len(pfs) |-> targets(pfs[i])]))
        last(n) == CHOOSE i \in 1..Len(pfs) :
                       /\ rels[i] = n
                       /\ \A j \in (i + 1)..Len(pfs) : rels[j] # n
    IN  [nodes |-> nodes,
         edges |-> {<<rels[i], t>> : i \in 1..Len(pfs), t \in Range(nodes)}
                   \cap {e \in Range(nodes) \X Range(nodes) :
                            \E i \in 1..Len(pfs) :
                                rels[i] = e[1] /\ e[2] \in Range(targets(pfs[i]))},
         node_data |-> [n \in Range(nodes) |->
                           IF n \in Range(rels) THEN FileNodeData(pfs[last(n)])
                           ELSE <<>>],
         node_in_cycle |-> <<>>, edge_in_cycle |-> <<>>]

\* GraphBuilder.build_file_graph
BuildFileGraph(pfs) ==
    LET module_to_file == CreateModuleMapping(pfs)
        nodes == Dedup([i \in 1..Len(pfs) |->
                            GetRelativePath(pfs[i].file_path)])
        edges ==
            {e \in Range(nodes) \X Range(nodes) :
                \E i \in 1..Len(pfs) :
                    LET pf == pfs[i]
                    IN  /\ GetRelativePath(pf.file_path) = e[1]
                        /\ \E k \in 1..Len(pf.imports) :
                              /\ e[2] \in Range(ResolveImport(pf.imports[k].module,
                                               pf.file_path, module_to_file, pfs))
                              /\ FileEdgeAdded(Range(nodes), e[1], e[2])}
        last(n) == CHOOSE i \in 1..Len(pfs) :
                       /\ GetRelativePath(pfs[i].file_path) = n
                       /\ \A j \in (i + 1)..Len(pfs) : GetRelativePath(pfs[j].file_path) # n
    IN  [nodes |-> nodes, edges |-> edges,
         node_data |-> [n \in Range(nodes) |-> FileNodeData(pfs[last(n)])],
         node_in_cycle |-> <<>>, edge_in_cycle |-> <<>>]

\* GraphBuilder.build_file_graph on the builder's graph object
BuildFileGraphInto(g, pfs) == GraphAddAll(GraphClear(g), BuildFileGraph(pfs))

\* the id of a definition's node
EntityId(rel_path, defn) ==
    IF defn.parent # None
    THEN rel_path \o "::" \o defn.parent \o "." \o defn.name
    ELSE rel_path \o "::" \o defn.name

\* an index in which the definition indexed first keeps a name
MapEntityKeepFirst(entity_map, rel_path, defn) ==
    LET by_name == IF defn.name \in DOMAIN entity_map THEN entity_map
                   ELSE DictSet(entity_map, defn.name, <<rel_path, defn>>)
        full_name == defn.parent \o "." \o defn.name
    IN  IF defn.parent # None /\ full_name \notin DOMAIN by_name
        THEN DictSet(by_name, full_name, <<rel_path, defn>>)
        ELSE by_name

\* an index of bare names only
MapEntityBareOnly(entity_map, rel_path, defn) ==
    DictSet(entity_map, defn.name, <<rel_path, defn>>)

\* the entity_map entries one definition writes
MapEntity(entity_map, rel_path, defn) ==
    LET by_name == DictSet(entity_map, defn.name, <<rel_path, defn>>)
    IN  IF defn.parent # None
        THEN DictSet(by_name, defn.parent \o "." \o defn.name, <<rel_path, defn>>)
        ELSE by_name

\* every (rel_path, definition) of the collection, in iteration order
AllDefinitions(pfs) ==
    Flatten([i \in 1..Len(pfs) |->
                [k \in 1..Len(pfs[i].definitions) |->
                    <<GetRelativePath(pfs[i].file_path), pfs[i].definitions[k]>>]])

RECURSIVE MapEntities(_, _)
MapEntities(entity_map, defs) ==
    IF defs = <<>> THEN entity_map
    ELSE MapEntities(MapEntity(entity_map, Head(defs)[1], Head(defs)[2]), Tail(defs))

\* the attributes build_entity_graph gives the node of a definition
EntityNodeData(rel_path, defn) ==
    [name |-> defn.name, type |-> defn.type, file |-> rel_path,
     cluster |-> rel_path, nesting_depth |-> defn.nesting_depth,
     parent |-> defn.parent]

\* a call edge without the self-edge test
EntityEdgeAddedAlways(nodes, source_id, target_id) == target_id \in nodes

\* if target_id in self.entity_graph and source_id != target_id
EntityEdgeAdded(nodes, source_id, target_id) ==
    target_id \in nodes /\ source_id # target_id

\* GraphBuilder.build_entity_graph
BuildEntityGraph(pfs) ==
    LET defs == AllDefinitions(pfs)
        entity_map == MapEntities(<<>>, defs)
        nodes == Dedup([i \in 1..Len(defs) |-> EntityId(defs[i][1], defs[i][2])])
        edges ==
            {e \in Range(nodes) \X Range(nodes) :
                \E i \in 1..Len(defs) :
                    /\ EntityId(defs[i][1], defs[i][2]) = e[1]
                    /\ \E k \in 1..Len(defs[i][2].calls) :
                          LET call == defs[i][2].calls[k]
                          IN  /\ call \in DOMAIN entity_map
                              /\ EntityId(entity_map[call][1], entity_map[call][2]) = e[2]
                              /\ EntityEdgeAdded(Range(nodes), e[1], e[2])}
        last(n) == CHOOSE i \in 1..Len(defs) :
                       /\ EntityId(defs[i][1], defs[i][2]) = n
                       /\ \A j \in (i + 1)..Len(defs) : EntityId(defs[j][1], defs[j][2]) # n
    IN  [nodes |-> nodes, edges |-> edges,
         node_data |-> [n \in Range(nodes) |->
                           EntityNodeData(defs[last(n)][1], defs[last(n)][2])],
         node_in_cycle |-> <<>>, edge_in_cycle |-> <<>>]

\* GraphBuilder.build_entity_graph on the builder's graph object
BuildEntityGraphInto(g, pfs) == GraphAddAll(GraphClear(g), BuildEntityGraph(pfs))

----------------------------------------------------------------------------
(* utils/config.py.  DEFAULT_CONFIG is one module-level dict; its values    *)
(* for "thresholds" and "detectors" are dict objects, those for             *)
(* "ignore_patterns" and "entry_points" are lists.  A Config instance holds *)
(* the dict self.config; each of its keys either still names the object     *)
(* DEFAULT_CONFIG names under that key (shared) or a value of its own.      *)

\* the literal of DEFAULT_CONFIG
DefaultConfig ==
    [thresholds |-> [max_function_lines |-> 50, max_nesting_depth |-> 4,
                     min_duplicate_lines |-> 5, terminal_output_lines |-> 100],
     ignore_patterns |-> <<>>,
     detectors |-> [comments |-> TRUE, unused_code |-> TRUE, duplicates |-> TRUE,
                    complexity |-> TRUE, imports |-> TRUE],
     entry_points |-> <<"main.py", "index.js", "app.py", "server.js", "__init__.py">>]

ConfigKeys == DOMAIN DefaultConfig

\* the keys of DEFAULT_CONFIG whose value is a dict
DictKeys == {"thresholds", "detectors"}

\* a value of an update: a dict or something else (a list)
DictValue(items) == [dict |-> TRUE, value |-> items]
ListValue(items) == [dict |-> FALSE, value |-> items]

\* what a key of self.config names
Shared == [shared |-> TRUE, value |-> <<>>]
Own(value) == [shared |-> FALSE, value |-> value]

\* self.config = DEFAULT_CONFIG.copy(): a new dict whose keys name the very
\* objects DEFAULT_CONFIG names
ShallowCopy == [key \in ConfigKeys |-> Shared]

\* _deep_update on a dict whose values are no dicts: base[key] = value
DictUpdate(base, update) ==
    [key \in (DOMAIN base) \cup (DOMAIN update) |->
        IF key \in DOMAIN update THEN update[key] ELSE base[key]]

\* Config._deep_update(self.config, update) with the objects as they stand:
\* a dict value under a key that names a dict is merged into that dict
\* object, any other value is bound to the key of self.config.
\* [defaults, config] are the objects DEFAULT_CONFIG names and self.config.
DeepUpdate(heap, update) ==
    LET merged(key) == key \in DOMAIN update /\ key \in DictKeys /\ update[key].dict
        bound(key) == key \in DOMAIN update /\ ~merged(key)
    IN  [defaults |->
            [key \in ConfigKeys |->
                IF merged(key) /\ heap.config[key].shared
                THEN DictUpdate(heap.defaults[key], update[key].value)
                ELSE heap.defaults[key]],
         config |->
            [key \in ConfigKeys |->
                IF bound(key) THEN Own(update[key].value)
                ELSE IF merged(key) /\ ~heap.config[key].shared
                THEN Own(DictUpdate(heap.config[key].value, update[key].value))
                ELSE heap.config[key]]]

\* no config file (or one that does not exist), overrides of None or {}
NoUpdate == <<>>

\* Config.__init__(config_path, overrides)
ConfigNew(defaults, user_config, overrides) ==
    LET copied == [defaults |-> defaults, config |-> ShallowCopy]
        loaded == IF DOMAIN user_config # {} THEN DeepUpdate(copied, user_config) ELSE copied
    IN  IF DOMAIN overrides # {} THEN DeepUpdate(loaded, overrides) ELSE loaded

\* Config.get(key) on a top-level key, with DEFAULT_CONFIG as it stands
ConfigGet(defaults, cfg, key) ==
    IF cfg.config[key].shared THEN defaults[key] ELSE cfg.config[key].value

----------------------------------------------------------------------------
(* Direct use of GraphAnalyzer on a graph the caller owns.  The analyzer    *)
(* keeps a reference to the caller's graph (self.graph = graph), so the     *)
(* caller may change the graph between two analyzer calls.                  *)

NodePool == <<"main.py", "orphan.py", "a.py", "b.py", "c.py">>
NoEntryPoints == [none |-> TRUE, items |-> <<>>]

\* the attributes the caller gave the nodes: a cluster for all but orphan.py
NodePoolData(n) ==
    IF n = "orphan.py" THEN [language |-> "python"]
    ELSE [cluster |-> IF n \in {"a.py", "b.py"} THEN "pkg" ELSE "."]

\* no graph held from an earlier build call
NoneHeld == [obj |-> "none", graph |-> EmptyGraph]

\* the entry_points arguments tried: None, the empty list, and lists of
\* fragments ("an" is contained in orphan.py without being equal to it)
EntryPointInputs ==
    {NoEntryPoints} \cup
    {[none |-> FALSE, items |-> q] :
        q \in {<<>>, <<"main.py">>, <<"an">>, <<"app.py", "main.py">>}}

\* the graphs over the first n nodes of the pool with at most MaxEdges edges
GraphsOver(nodes) ==
    {[nodes |-> nodes, edges |-> E,
      node_data |-> [n \in Range(nodes) |-> NodePoolData(n)],
      node_in_cycle |-> <<>>, edge_in_cycle |-> <<>>] :
        E \in {X \in SUBSET (Range(nodes) \X Range(nodes)) : Cardinality(X) <= MaxEdges}}

InputGraphs ==
    UNION {GraphsOver(SubSeq(NodePool, 1, n)) : n \in 0..Min(MaxNodes, Len(NodePool))}

\* the graph object GraphAnalyzer.graph refers to
AnalyzedGraph == IF analyzer_graph = "entity_graph" THEN entity_graph ELSE file_graph

\* a write through GraphAnalyzer.graph
WriteAnalyzed(g) ==
    IF analyzer_graph = "entity_graph"
    THEN entity_graph' = g /\ UNCHANGED file_graph
    ELSE file_graph' = g /\ UNCHANGED entity_graph

Op(name) == [name |-> name, entry_points |-> NoEntryPoints]

AnalyzerInit ==
    /\ files = <<>>
    /\ next_file = 1
    /\ parsed_files = <<>>
    /\ parse_failed = {}
    /\ file_graph \in InputGraphs
    /\ entity_graph = EmptyGraph
    /\ analyzer_graph = "file_graph"
    /\ pc = "api"
    /\ last_op = Op("init")
    /\ result = <<>>
    /\ held = NoneHeld
    /\ worker = <<>>
    /\ visitor = <<>>
    /\ DEFAULT_CONFIG = DefaultConfig
    /\ configs = <<>>

ApiFindCircularDependencies ==
    /\ pc = "api"
    /\ result' = FindCircularDependencies(AnalyzedGraph)
    /\ last_op' = Op("find_circular_dependencies")
    /\ UNCHANGED <<files, next_file, parsed_files, parse_failed, file_graph,
                   entity_graph, analyzer_graph, pc>>
    /\ UNCHANGED <<held, worker, visitor, DEFAULT_CONFIG, configs>>

ApiFindStrandedNodes ==
    /\ pc = "api"
    /\ \E eps \in EntryPointInputs :
        /\ result' = FindStrandedNodes(AnalyzedGraph, eps)
        /\ last_op' = [name |-> "find_stranded_nodes", entry_points |-> eps]
    /\ UNCHANGED <<files, next_file, parsed_files, parse_failed, file_graph,
                   entity_graph, analyzer_graph, pc>>
    /\ UNCHANGED <<held, worker, visitor, DEFAULT_CONFIG, configs>>

ApiMarkCycles ==
    /\ pc = "api"
    /\ WriteAnalyzed(MarkCycles(AnalyzedGraph))
    /\ result' = <<>>
    /\ last_op' = Op("mark_cycles")
    /\ UNCHANGED <<files, next_file, parsed_files, parse_failed, analyzer_graph, pc>>
    /\ UNCHANGED <<held, worker, visitor, DEFAULT_CONFIG, configs>>

CallerRemoveEdge ==
    /\ pc = "api"
    /\ \E e \in AnalyzedGraph.edges : WriteAnalyzed(RemoveEdgeFrom(AnalyzedGraph, e))
    /\ result' = <<>>
    /\ last_op' = Op("remove_edge")
    /\ UNCHANGED <<files, next_file, parsed_files, parse_failed, analyzer_graph, pc>>
    /\ UNCHANGED <<held, worker, visitor, DEFAULT_CONFIG, configs>>

AnalyzerNext ==
    \/ ApiFindCircularDependencies
    \/ ApiFindStrandedNodes
    \/ ApiMarkCycles
    \/ CallerRemoveEdge

AnalyzerSpec == AnalyzerInit /\ [][AnalyzerNext]_vars

----------------------------------------------------------------------------
(* Every operation of GraphAnalyzer on a graph the caller owns *)

\* an operation on one node id
OpOn(name, node) == [name |-> name, entry_points |-> NoEntryPoints, node |-> node]

\* the node ids asked about: one the graph may hold, one no graph holds
QueryNodes == {NodePool[2], "missing.py"}

\* an operation that returns a value and writes nothing
Query(op, value) ==
    /\ pc = "api"
    /\ result' = value
    /\ last_op' = op
    /\ UNCHANGED <<files, next_file, parsed_files, parse_failed, file_graph,
                   entity_graph, analyzer_graph, pc, held, worker, visitor, DEFAULT_CONFIG, configs>>

ApiFindIsolatedNodes == Query(Op("find_isolated_nodes"), FindIsolatedNodes(AnalyzedGraph))

\* find_stranded_nodes() with the default argument
ApiFindStrandedNodesDefault ==
    Query(Op("find_stranded_nodes"), FindStrandedNodes(AnalyzedGraph, NoEntryPoints))

ApiCalculateCentrality == Query(Op("calculate_centrality"), CalculateCentrality(AnalyzedGraph))

ApiGetDependencies ==
    \E node \in QueryNodes :
        Query(OpOn("get_dependencies", node), GetDependencies(AnalyzedGraph, node))

ApiGetDependents ==
    \E node \in QueryNodes :
        Query(OpOn("get_dependents", node), GetDependents(AnalyzedGraph, node))

ApiGetNodeData ==
    \E node \in QueryNodes :
        Query(OpOn("get_node_data", node), GetNodeData(AnalyzedGraph, node))

ApiGetClusters == Query(Op("get_clusters"), GetClusters(AnalyzedGraph))

QueryNext ==
    \/ ApiFindCircularDependencies
    \/ ApiFindIsolatedNodes
    \/ ApiFindStrandedNodesDefault
    \/ ApiCalculateCentrality
    \/ ApiGetDependencies
    \/ ApiGetDependents
    \/ ApiGetNodeData
    \/ ApiGetClusters
    \/ ApiMarkCycles

QuerySpec == AnalyzerInit /\ [][QueryNext]_vars

----------------------------------------------------------------------------
(* One analyze run of the command line (cli.analyze): parse every           *)
(* discovered file, build the graph of the chosen mode, analyze it, run the *)
(* unused-code detector.                                                    *)

File(path, language, access, syntax_ok, content, stmts) ==
    [path |-> path, language |-> language, access |-> access,
     syntax_ok |-> syntax_ok, content |-> content, stmts |-> stmts, tree |-> "dict"]

\* the file when esprima.parseModule returns node objects for it
NodeTree(f, tree) == [f EXCEPT !.tree = tree]

ModuleA ==
    File("/p/a.py", "python", "ok", TRUE,
         "from . import b\n\ndef fa():\n    return b.fb()\n",
         <<PyImportFrom(None, 1, <<"b">>),
           PyFunctionDef("fa", <<CallAttr("b", "fb")>>, <<>>)>>)

ModuleB ==
    File("/p/b.py", "python", "ok", TRUE,
         "from . import a\n\ndef fb():\n    return a.fa()\n",
         <<PyImportFrom(None, 1, <<"a">>),
           PyFunctionDef("fb", <<CallAttr("a", "fa")>>, <<>>)>>)

SelfImportA ==
    File("/p/a.py", "python", "ok", TRUE,
         "import a\nfrom b import fb\ndef fa():\n    fb()\n    fa()\n",
         <<PyImport(<<"a">>), PyImportFrom("b", 0, <<"fb">>),
           PyFunctionDef("fa", <<CallName("fb"), CallName("fa")>>, <<>>)>>)

AbsImportB ==
    File("/p/b.py", "python", "ok", TRUE,
         "import a\n  # uses a\ndef fb():\n    fa()\n",
         <<PyImport(<<"a">>), PyFunctionDef("fb", <<CallName("fa")>>, <<>>)>>)

\* pkg/mod.py; ast.walk meets the call x().m() before the call x() inside it
PkgMod ==
    File("/p/pkg/mod.py", "python", "ok", TRUE,
         "'mod'\nimport pkg\nclass C:\n    'a C'\n    def m(self):\n        self.m(); C.m(self); m(); x().m()\n",
         <<PyModuleDocstring("mod"),
           PyImport(<<"pkg">>),
           Documented(
               PyClassDef("C",
                   <<PyFunctionDef("m", <<CallAttr("self", "m"), CallAttr("C", "m"),
                                          CallName("m"), CallDeep("m"), CallName("x")>>,
                                     <<>>)>>),
               "a C", 3)>>)

Main ==
    File("/p/main.py", "python", "ok", TRUE,
         "from pkg import mod\ndef main():\n    mod.C()\n    fa()\n",
         <<PyImportFrom("pkg", 0, <<"mod">>),
           PyFunctionDef("main", <<CallAttr("mod", "C"), CallName("fa")>>, <<>>)>>)

JsX ==
    File("/p/d/x.js", "javascript", "ok", TRUE,
         "import {x} from './x'\nfunction x() { x() } // again\n",
         <<JsImportDeclaration("./x", <<"x">>),
           JsFunctionDeclaration("x", <<CallName("x")>>, <<>>)>>)

JsIndex ==
    File("/p/index.js", "javascript", "ok", TRUE,
         "import {x} from './d/x'\nfunction run() { x() }\n",
         <<JsImportDeclaration("./d/x", <<"x">>),
           JsFunctionDeclaration("run", <<CallName("x")>>, <<>>)>>)

\* a declarator without initialiser: _extract_imports raises
JsNoInit ==
    File("/p/d/v.js", "javascript", "ok", TRUE,
         "let v;\nconst x = require('./x')\nfunction f() { x() }\n// tail\n",
         <<JsLet("v"), JsRequire("x", "./x"),
           JsFunctionDeclaration("f", <<CallName("x")>>, <<>>)>>)

\* a function declaration without id after a class: _extract_imports
\* returns, _extract_definitions raises
JsAnon ==
    File("/p/d/w.js", "javascript", "ok", TRUE,
         "const x = require('./x')\nimport {y} from './y'\nclass K { m() { x() } }\nexport default function () { y() }\n/** w */\n",
         <<JsRequire("x", "./x"), JsImportDeclaration("./y", <<"y">>),
           JsClassDeclaration("K", <<JsMethodDefinition("m", <<CallName("x")>>)>>),
           JsFunctionDeclaration(None, <<CallName("y")>>, <<>>)>>)

\* esprima returns node objects: nothing is a dict, tree.comments has
\* entries and they have no method get
JsNode ==
    NodeTree(File("/p/d/n.js", "javascript", "ok", TRUE,
                  "import {x} from './x' // use\nconst n = () => x()\n/*! n */\n",
                  <<JsImportDeclaration("./x", <<"x">>),
                    JsArrowFunction("n", <<CallName("x")>>)>>),
             "node")

\* esprima returns node objects whose comment entries are mappings
JsNodeMapping ==
    NodeTree(File("/p/index.js", "javascript", "ok", TRUE,
                  "import {x} from './d/x'\nfunction run() { x() } /** go */\n",
                  <<JsImportDeclaration("./d/x", <<"x">>),
                    JsFunctionDeclaration("run", <<CallName("x")>>, <<>>)>>),
             "node_mapping_comments")

\* a Python file open() cannot read
Locked == File("/p/locked.py", "python", "unreadable", TRUE, "import a\n", <<PyImport(<<"a">>)>>)

\* a JavaScript file open() cannot read
Gone == File("/p/gone.js", "javascript", "unreadable", TRUE, "", <<>>)

\* a Python file whose bytes are not UTF-8
Latin ==
    File("/p/latin.py", "python", "undecodable", TRUE,
         "import a\ndef fl():\n    fa()\n",
         <<PyImport(<<"a">>), PyFunctionDef("fl", <<CallName("fa")>>, <<>>)>>)

\* a Python file with a syntax error
Broken ==
    File("/p/broken.py", "python", "ok", FALSE,
         "import a\n# broken\n\ndef fx(:\n    pass\n",
         <<PyImport(<<"a">>), PyFunctionDef("fx", <<>>, <<>>)>>)

\* a TypeScript file the grammar rejects
BrokenTs ==
    File("/p/d/y.ts", "typescript", "ok", FALSE,
         "import {x} from './x'\n// typed\nfunction y(a: number) { x() }\n",
         <<JsImportDeclaration("./x", <<"x">>),
           JsFunctionDeclaration("y", <<CallName("x")>>, <<>>)>>)

\* two files with the same bare filename, both defining `helper`; `import y`
\* names no module of the project
XU ==
    File("/p/x/u.py", "python", "ok", TRUE,
         "import u\nimport y\ndef helper():\n    pass\ndef run():\n    helper()\n",
         <<PyImport(<<"u">>), PyImport(<<"y">>),
           PyFunctionDef("helper", <<>>, <<>>),
           PyFunctionDef("run", <<CallName("helper")>>, <<>>)>>)

YU ==
    File("/p/y/u.py", "python", "ok", TRUE,
         "def helper():\n    pass\n",
         <<PyFunctionDef("helper", <<>>, <<>>)>>)

SourcePool ==
    {ModuleA, ModuleB, SelfImportA, AbsImportB, PkgMod, Main, JsX, JsIndex,
     JsNoInit, JsAnon, JsNode, JsNodeMapping, Locked, Gone, Latin, Broken, BrokenTs}

\* the non-empty lists of at most MaxFiles files of a pool with pairwise
\* distinct paths
CollectionsOf(pool) ==
    {c \in SeqsUpTo(pool, MaxFiles) :
        /\ Len(c) >= 1
        /\ \A i, j \in 1..Len(c) : i # j => c[i].path # c[j].path}

Collections == CollectionsOf(SourcePool)

\* DEFAULT_CONFIG["entry_points"]
DefaultEntryPoints ==
    [none |-> FALSE,
     items |-> <<"main.py", "index.js", "app.py", "server.js", "__init__.py">>]

Init ==
    /\ files \in Collections
    /\ next_file = 1
    /\ parsed_files = <<>>
    /\ parse_failed = {}
    /\ file_graph = EmptyGraph
    /\ entity_graph = EmptyGraph
    /\ analyzer_graph = "none"
    /\ pc = "parse"
    /\ last_op = Op("init")
    /\ result = <<>>
    /\ held = NoneHeld
    /\ worker = <<>>
    /\ visitor = <<>>
    /\ DEFAULT_CONFIG = DefaultConfig
    /\ configs = <<>>

\* a parse loop without the try/except: the first parse_file call that
\* raises ends the loop, and the files after it are never parsed
CliParseFileUncaught ==
    /\ pc = "parse"
    /\ next_file <= Len(files)
    /\ LET r == ParseFile(files[next_file])
       IN  IF r.raised
           THEN /\ parse_failed' = parse_failed \cup {files[next_file].path}
                /\ next_file' = Len(files) + 1
                /\ UNCHANGED parsed_files
           ELSE /\ parsed_files' = Append(parsed_files, r.parsed)
                /\ next_file' = next_file + 1
                /\ UNCHANGED parse_failed
    /\ last_op' = Op("parse_file")
    /\ UNCHANGED <<files, file_graph, entity_graph, analyzer_graph, pc, result>>
    /\ UNCHANGED <<held, worker, visitor, DEFAULT_CONFIG, configs>>

\* one iteration of the parse loop: a parse_file call that raises is caught,
\* reported as a warning, and the file is left out of parsed_files
CliParseFile ==
    /\ pc = "parse"
    /\ next_file <= Len(files)
    /\ LET r == ParseFile(files[next_file])
       IN  IF r.raised
           THEN /\ parse_failed' = parse_failed \cup {files[next_file].path}
                /\ UNCHANGED parsed_files
           ELSE /\ parsed_files' = Append(parsed_files, r.parsed)
                /\ UNCHANGED parse_failed
    /\ next_file' = next_file + 1
    /\ last_op' = Op("parse_file")
    /\ UNCHANGED <<files, file_graph, entity_graph, analyzer_graph, pc, result>>
    /\ UNCHANGED <<held, worker, visitor, DEFAULT_CONFIG, configs>>

\* mode == 'file'
CliBuildFileGraph ==
    /\ pc = "parse"
    /\ next_file > Len(files)
    /\ file_graph' = BuildFileGraphInto(file_graph, parsed_files)
    /\ analyzer_graph' = "file_graph"
    /\ pc' = "cycles"
    /\ last_op' = Op("build_file_graph")
    /\ UNCHANGED <<files, next_file, parsed_files, parse_failed, entity_graph, result>>
    /\ UNCHANGED <<held, worker, visitor, DEFAULT_CONFIG, configs>>

\* mode == 'entity'
CliBuildEntityGraph ==
    /\ pc = "parse"
    /\ next_file > Len(files)
    /\ entity_graph' = BuildEntityGraphInto(entity_graph, parsed_files)
    /\ analyzer_graph' = "entity_graph"
    /\ pc' = "cycles"
    /\ last_op' = Op("build_entity_graph")
    /\ UNCHANGED <<files, next_file, parsed_files, parse_failed, file_graph, result>>
    /\ UNCHANGED <<held, worker, visitor, DEFAULT_CONFIG, configs>>

CliFindCircularDependencies ==
    /\ pc = "cycles"
    /\ result' = FindCircularDependencies(AnalyzedGraph)
    /\ pc' = "stranded"
    /\ last_op' = Op("find_circular_dependencies")
    /\ UNCHANGED <<files, next_file, parsed_files, parse_failed, file_graph,
                   entity_graph, analyzer_graph>>
    /\ UNCHANGED <<held, worker, visitor, DEFAULT_CONFIG, configs>>

CliFindStrandedNodes ==
    /\ pc = "stranded"
    /\ result' = FindStrandedNodes(AnalyzedGraph, DefaultEntryPoints)
    /\ pc' = "mark"
    /\ last_op' = [name |-> "find_stranded_nodes", entry_points |-> DefaultEntryPoints]
    /\ UNCHANGED <<files, next_file, parsed_files, parse_failed, file_graph,
                   entity_graph, analyzer_graph>>
    /\ UNCHANGED <<held, worker, visitor, DEFAULT_CONFIG, configs>>

CliMarkCycles ==
    /\ pc = "mark"
    /\ WriteAnalyzed(MarkCycles(AnalyzedGraph))
    /\ result' = <<>>
    /\ pc' = "detect"
    /\ last_op' = Op("mark_cycles")
    /\ UNCHANGED <<files, next_file, parsed_files, parse_failed, analyzer_graph>>
    /\ UNCHANGED <<held, worker, visitor, DEFAULT_CONFIG, configs>>

\* a builder with one graph object for both builds: the later
\* build_file_graph call clears and refills the graph the run analyzed
CliUnusedCodeDetectorOneGraph ==
    /\ pc = "detect"
    /\ IF analyzer_graph = "entity_graph"
       THEN entity_graph' = BuildFileGraphInto(entity_graph, parsed_files)
       ELSE UNCHANGED entity_graph
    /\ pc' = "done"
    /\ last_op' = Op("unused_code_detector")
    /\ UNCHANGED <<files, next_file, parsed_files, parse_failed, file_graph,
                   analyzer_graph, result>>
    /\ UNCHANGED <<held, worker, visitor, DEFAULT_CONFIG, configs>>

\* the unused-code detector's graph: the file graph of the run, built now in
\* entity mode
CliUnusedCodeDetector ==
    /\ pc = "detect"
    /\ IF analyzer_graph = "entity_graph"
       THEN file_graph' = BuildFileGraphInto(file_graph, parsed_files)
       ELSE UNCHANGED file_graph
    /\ pc' = "done"
    /\ last_op' = Op("unused_code_detector")
    /\ UNCHANGED <<files, next_file, parsed_files, parse_failed, entity_graph,
                   analyzer_graph, result>>
    /\ UNCHANGED <<held, worker, visitor, DEFAULT_CONFIG, configs>>

Next ==
    \/ CliParseFile
    \/ CliBuildFileGraph
    \/ CliBuildEntityGraph
    \/ CliFindCircularDependencies
    \/ CliFindStrandedNodes
    \/ CliMarkCycles
    \/ CliUnusedCodeDetector

Spec == Init /\ [][Next]_vars

----------------------------------------------------------------------------
(* Direct use of GraphBuilder: a caller makes two build calls on one        *)
(* builder and hands what a call returns to GraphAnalyzer, as cli.analyze   *)
(* does (graph = graph_builder.build_...(parsed_files); GraphAnalyzer(graph) *)
(* ).  A build call returns the builder's own graph object.                 *)

\* the graph object a reference names
GraphOf(obj) == IF obj = "entity_graph" THEN entity_graph ELSE file_graph

\* the source files the caller's collections are parsed from
BuilderSources == {SelfImportA, AbsImportB, JsX, XU, YU}

\* the collections the caller passes: parsed files, or nothing at all
ParsedCollections ==
    {<<>>} \cup
    {[i \in 1..Len(c) |-> ParseFile(c[i]).parsed] : c \in CollectionsOf(BuilderSources)}

BuilderInit ==
    /\ files = <<>>
    /\ next_file = 1
    /\ parsed_files = <<>>
    /\ parse_failed = {}
    /\ file_graph = EmptyGraph
    /\ entity_graph = EmptyGraph
    /\ analyzer_graph = "none"
    /\ pc = "builder_fresh"
    /\ last_op = Op("init")
    /\ result = <<>>
    /\ held = NoneHeld
    /\ worker = <<>>
    /\ visitor = <<>>
    /\ DEFAULT_CONFIG = DefaultConfig
    /\ configs = <<>>

\* the graph the caller got from the first build call, as it stands when the
\* second call begins
HeldAtCall ==
    IF pc = "builder_built"
    THEN [obj |-> analyzer_graph, graph |-> GraphOf(analyzer_graph)]
    ELSE held

BuilderBuildFileGraph ==
    /\ pc \in {"builder_fresh", "builder_built"}
    /\ \E c \in ParsedCollections :
        /\ parsed_files' = c
        /\ file_graph' = BuildFileGraphInto(file_graph, c)
    /\ held' = HeldAtCall
    /\ analyzer_graph' = "file_graph"
    /\ pc' = IF pc = "builder_fresh" THEN "builder_built" ELSE "builder_rebuilt"
    /\ last_op' = Op("build_file_graph")
    /\ result' = <<>>
    /\ UNCHANGED <<files, next_file, parse_failed, entity_graph, worker, visitor, DEFAULT_CONFIG, configs>>

BuilderBuildEntityGraph ==
    /\ pc \in {"builder_fresh", "builder_built"}
    /\ \E c \in ParsedCollections :
        /\ parsed_files' = c
        /\ entity_graph' = BuildEntityGraphInto(entity_graph, c)
    /\ held' = HeldAtCall
    /\ analyzer_graph' = "entity_graph"
    /\ pc' = IF pc = "builder_fresh" THEN "builder_built" ELSE "builder_rebuilt"
    /\ last_op' = Op("build_entity_graph")
    /\ result' = <<>>
    /\ UNCHANGED <<files, next_file, parse_failed, file_graph, worker, visitor, DEFAULT_CONFIG, configs>>

\* GraphAnalyzer(graph).mark_cycles() on the graph the last call returned
BuilderMarkCycles ==
    /\ pc \in {"builder_built", "builder_rebuilt"}
    /\ WriteAnalyzed(MarkCycles(AnalyzedGraph))
    /\ result' = <<>>
    /\ last_op' = Op("mark_cycles")
    /\ UNCHANGED <<files, next_file, parsed_files, parse_failed, analyzer_graph, pc, held>>
    /\ UNCHANGED <<worker, visitor, DEFAULT_CONFIG, configs>>

BuilderNext ==
    \/ BuilderBuildFileGraph
    \/ BuilderBuildEntityGraph
    \/ BuilderMarkCycles

BuilderSpec == BuilderInit /\ [][BuilderNext]_vars

----------------------------------------------------------------------------
(* Concurrent parsing: workers share one PythonParser and one               *)
(* JavaScriptParser and take the files of a queue one by one.  A parse_file *)
(* call runs in steps: it begins (the visitor of _extract_definitions is    *)
(* created), the visitor enters one node per step, the call returns.  The   *)
(* steps of different workers interleave.                                   *)

Workers == {1, 2}

\* a function after a class
PyShapes ==
    File("/p/s.py", "python", "ok", TRUE,
         "class S:\n    def m(self):\n        pass\ndef f():\n    S()\n",
         <<PyClassDef("S", <<PyFunctionDef("m", <<>>, <<>>)>>),
           PyFunctionDef("f", <<CallName("S")>>, <<>>)>>)

JsWidget ==
    File("/p/w.js", "javascript", "ok", TRUE,
         "class W {\n  m() { f() }\n}\nfunction f() {}\n",
         <<JsClassDeclaration("W", <<JsMethodDefinition("m", <<CallName("f")>>)>>),
           JsFunctionDeclaration("f", <<>>, <<>>)>>)

\* nested compound statements, an if/elif chain, an inner function, calls
\* through a bare name, an attribute of a name and a deeper chain
PyNested ==
    File("/p/n.py", "python", "ok", TRUE,
         "def deep():\n    if a:\n        for b in c:\n            try:\n                d()\n            except E:\n                pass\n    def inner():\n        pass\ndef chain():\n    if a:\n        pass\n    elif b:\n        pass\n    elif c:\n        pass\ndef flat():\n    g()\n    o.m()\n    x.y.z()\n",
         <<PyFunctionDef("deep", <<>>,
               <<Compound("If", <<>>,
                     <<Compound("For", <<>>,
                           <<Compound("Try", <<CallName("d")>>, <<>>)>>)>>),
                 PyFunctionDef("inner", <<>>, <<>>)>>),
           PyFunctionDef("chain", <<>>,
               <<Compound("If", <<>>,
                     <<ChainedIf("If", <<>>, <<ChainedIf("If", <<>>, <<>>)>>)>>)>>),
           PyFunctionDef("flat", <<CallName("g"), CallAttr("o", "m"), CallDeep("z")>>,
                         <<>>)>>)

\* nested compound statements, a for-of loop, a function inside an arrow
\* function, calls through a bare name, a member of a name and a deeper chain
JsNested ==
    File("/p/n.js", "javascript", "ok", TRUE,
         "function deep() {\n  if (a) { while (b) { try { d() } catch (e) {} } }\n}\nfunction loop(vs) {\n  for (const v of vs) { g(); o.m(); x.y.z() }\n}\nconst outer = () => {\n  function inner() {}\n}\n",
         <<JsFunctionDeclaration("deep", <<>>,
               <<Compound("IfStatement", <<>>,
                     <<Compound("WhileStatement", <<>>,
                           <<Compound("TryStatement", <<CallName("d")>>, <<>>)>>)>>)>>),
           JsFunctionDeclaration("loop", <<>>,
               <<Compound("ForOfStatement",
                          <<CallName("g"), CallAttr("o", "m"), CallDeep("z")>>, <<>>)>>),
           JsArrowFunctionWith("outer", <<>>,
               <<JsFunctionDeclaration("inner", <<>>, <<>>)>>)>>)

\* well-formed files; two of them have the same path and different content
WellFormedPool ==
    {ModuleA, SelfImportA, PyShapes, JsWidget, PyNested, JsNested}

\* the queues of at most MaxFiles files; a file may be queued more than once
Queues == SeqsUpTo(WellFormedPool, MaxFiles) \ {<<>>}

NoFile == File(None, None, "ok", TRUE, "", <<>>)

IdleWorker == [pc |-> "idle", file |-> NoFile, agenda |-> <<>>, overlapped |-> FALSE]

\* DefinitionVisitor.__init__ / the definitions list of visit_node's closure
NewVisitor == [definitions |-> <<>>, current_class |-> None]

\* one visitor kept with the parser instance, for every call
VisitorOfParser(w) == 1

\* the visitor a call works with: _extract_definitions creates one per call
VisitorOf(w) == w

\* pending calls of visit / visit_node, and the pending assignment
\* self.current_class = old_class of visit_ClassDef
VisitItem(node, parent_class) ==
    [kind |-> "visit", node |-> node, parent_class |-> parent_class]
RestoreItem(old_class) == [kind |-> "restore", old_class |-> old_class]
VisitItems(stmts, parent_class) ==
    [i \in 1..Len(stmts) |-> VisitItem(stmts[i], parent_class)]

\* one step of DefinitionVisitor: [visitor, push]
PyVisitStep(vis, item) ==
    IF item.kind = "restore"
    THEN [visitor |-> [vis EXCEPT !.current_class = item.old_class], push |-> <<>>]
    ELSE IF item.node.kind = "ClassDef"
    THEN [visitor |->
              [definitions |-> Append(vis.definitions,
                                      Definition(item.node.name, "class",
                                                 vis.current_class, <<>>, 0)),
               current_class |-> item.node.name],
          push |-> VisitItems(item.node.body, None)
                   \o <<RestoreItem(vis.current_class)>>]
    ELSE IF item.node.kind = "FunctionDef"
    THEN [visitor |->
              [vis EXCEPT !.definitions =
                  Append(@, Definition(item.node.name,
                                       IF vis.current_class # None
                                       THEN "method" ELSE "function",
                                       vis.current_class, PyExtractCalls(item.node),
                                       PyCalculateNesting(item.node)))],
          push |-> <<>>]
    ELSE [visitor |-> vis, push |-> VisitItems(item.node.body, None)]

\* one call of visit_node(node, parent_class) of
\* JavaScriptParser._extract_definitions: [visitor, push]
JsVisitStep(vis, item) ==
    LET node == item.node
        Defined(defn) == [vis EXCEPT !.definitions = Append(@, defn)]
    IN  IF node.kind = "ClassDeclaration"
        THEN [visitor |-> Defined(Definition(node.name, "class", item.parent_class, <<>>, 0)),
              push |-> VisitItems(node.body, node.name)]
        ELSE IF node.kind = "FunctionDeclaration"
        THEN [visitor |->
                  Defined(Definition(node.name,
                                     IF item.parent_class # None
                                     THEN "method" ELSE "function",
                                     item.parent_class, JsExtractCalls(node), JsCalculateNesting(node))),
              push |-> <<>>]
        ELSE IF node.kind = "MethodDefinition"
        THEN [visitor |-> Defined(Definition(node.name, "method", item.parent_class,
                                             JsExtractCalls(node), JsCalculateNesting(node))),
              push |-> <<>>]
        ELSE IF node.kind = "VariableDeclaration"
                /\ node.init \in {"FunctionExpression", "ArrowFunctionExpression"}
                /\ node.name # None
        THEN [visitor |-> Defined(Definition(node.name, "function", None,
                                             JsExtractCalls(node), JsCalculateNesting(node))),
              push |-> VisitItems(node.body, item.parent_class)]
        ELSE [visitor |-> vis, push |-> VisitItems(node.body, item.parent_class)]

\* the ParsedFile a call returns for a well-formed file, given the
\* definitions its visitor collected
Returned(f, definitions) == [ParseFile(f).parsed EXCEPT !.definitions = definitions]

WorkerInit ==
    /\ files \in Queues
    /\ next_file = 1
    /\ parsed_files = <<>>
    /\ parse_failed = {}
    /\ file_graph = EmptyGraph
    /\ entity_graph = EmptyGraph
    /\ analyzer_graph = "none"
    /\ pc = "workers"
    /\ last_op = Op("init")
    /\ result = <<>>
    /\ held = NoneHeld
    /\ worker = [w \in Workers |-> IdleWorker]
    /\ visitor = [v \in Workers |-> NewVisitor]
    /\ DEFAULT_CONFIG = DefaultConfig
    /\ configs = <<>>

\* a worker takes the next file of the queue and its parse_file call begins
WorkerBegin ==
    \E w \in Workers :
        /\ worker[w].pc = "idle"
        /\ next_file <= Len(files)
        /\ LET f == files[next_file]
               tree == IF f.language = "python" THEN f.stmts ELSE JsTree(f)
               busy == {o \in Workers \ {w} : worker[o].pc = "visiting"}
           IN  /\ worker' =
                     [o \in Workers |->
                         IF o = w
                         THEN [pc |-> "visiting", file |-> f,
                               agenda |-> VisitItems(tree, None),
                               overlapped |-> busy # {}]
                         ELSE IF o \in busy
                         THEN [worker[o] EXCEPT !.overlapped = TRUE]
                         ELSE worker[o]]
               /\ visitor' = [visitor EXCEPT ![VisitorOf(w)] = NewVisitor]
        /\ next_file' = next_file + 1
        /\ UNCHANGED <<files, parsed_files, parse_failed, file_graph, entity_graph,
                       analyzer_graph, pc, last_op, result, held,
                       DEFAULT_CONFIG, configs>>

\* the visitor of a call enters the next node
WorkerVisit ==
    \E w \in Workers :
        /\ worker[w].pc = "visiting"
        /\ worker[w].agenda # <<>>
        /\ LET item == Head(worker[w].agenda)
               vis == visitor[VisitorOf(w)]
               step == IF worker[w].file.language = "python"
                       THEN PyVisitStep(vis, item) ELSE JsVisitStep(vis, item)
           IN  /\ visitor' = [visitor EXCEPT ![VisitorOf(w)] = step.visitor]
               /\ worker' = [worker EXCEPT ![w].agenda = step.push \o Tail(@)]
        /\ UNCHANGED <<files, next_file, parsed_files, parse_failed, file_graph,
                       entity_graph, analyzer_graph, pc, last_op, result, held,
                       DEFAULT_CONFIG, configs>>

\* a parse_file call returns its ParsedFile; its visitor is dropped
WorkerReturn ==
    \E w \in Workers :
        /\ worker[w].pc = "visiting"
        /\ worker[w].agenda = <<>>
        /\ parsed_files' =
              Append(parsed_files,
                     Returned(worker[w].file, visitor[VisitorOf(w)].definitions))
        /\ last_op' = [name |-> "parse_file", entry_points |-> NoEntryPoints,
                       overlapped |-> worker[w].overlapped]
        /\ worker' = [worker EXCEPT ![w] = IdleWorker]
        /\ visitor' = [visitor EXCEPT ![VisitorOf(w)] = NewVisitor]
        /\ UNCHANGED <<files, next_file, parse_failed, file_graph, entity_graph,
                       analyzer_graph, pc, result, held,
                       DEFAULT_CONFIG, configs>>

WorkerNext ==
    \/ WorkerBegin
    \/ WorkerVisit
    \/ WorkerReturn

WorkerSpec == WorkerInit /\ [][WorkerNext]_vars

----------------------------------------------------------------------------
(* The module index and import resolution of GraphBuilder, used directly:   *)
(* a caller parses a collection, then either asks _resolve_import about a   *)
(* module string or builds the file graph.                                  *)

\* a file of directory d importing ./x and its own directory
JsSiblingImport ==
    File("/p/d/y.js", "javascript", "ok", TRUE,
         "import x from './x'\nimport here from '.'\n",
         <<JsImportDeclaration("./x", <<"x">>),
           JsImportDeclaration(".", <<"here">>)>>)

\* x.js in the root directory
JsRootX == File("/p/x.js", "javascript", "ok", TRUE, "export const v = 1\n", <<>>)

ResolverSources == {JsSiblingImport, JsX, JsRootX, JsIndex, Main, PkgMod}

\* the parsed collections of at most MaxFiles + 1 files
ResolverCollections ==
    {[i \in 1..Len(c) |-> ParseFile(c[i]).parsed] :
        c \in {q \in SeqsUpTo(ResolverSources, MaxFiles + 1) :
                  /\ Len(q) >= 1
                  /\ \A i, j \in 1..Len(q) : i # j => q[i].path # q[j].path}}

\* the module strings asked about: indexed ones, relative ones, dotted and
\* bare ones, the empty string
ModuleStrings == {"./x", ".", "../x", "./d/x", "./nothing", "pkg", "pkg.mod", "x", "nothing", ""}

ResolverInit ==
    /\ files = <<>>
    /\ next_file = 1
    /\ parsed_files \in ResolverCollections
    /\ parse_failed = {}
    /\ file_graph = EmptyGraph
    /\ entity_graph = EmptyGraph
    /\ analyzer_graph = "none"
    /\ pc = "resolver"
    /\ last_op = Op("init")
    /\ result = <<>>
    /\ held = NoneHeld
    /\ worker = <<>>
    /\ visitor = <<>>
    /\ DEFAULT_CONFIG = DefaultConfig
    /\ configs = <<>>

\* self._resolve_import(module, pf.file_path, module_to_file, parsed_files)
ResolverResolveImport ==
    /\ pc = "resolver"
    /\ \E module \in ModuleStrings, i \in 1..Len(parsed_files) :
          /\ result' = ResolveImport(module, parsed_files[i].file_path,
                                     CreateModuleMapping(parsed_files), parsed_files)
          /\ last_op' = [name |-> "_resolve_import", entry_points |-> NoEntryPoints,
                         module |-> module, source_file |-> parsed_files[i].file_path]
    /\ pc' = "resolved"
    /\ UNCHANGED <<files, next_file, parsed_files, parse_failed, file_graph,
                   entity_graph, analyzer_graph, held, worker, visitor, DEFAULT_CONFIG, configs>>

ResolverBuildFileGraph ==
    /\ pc = "resolver"
    /\ file_graph' = BuildFileGraphInto(file_graph, parsed_files)
    /\ result' = <<>>
    /\ last_op' = Op("build_file_graph")
    /\ pc' = "resolved"
    /\ UNCHANGED <<files, next_file, parsed_files, parse_failed, entity_graph,
                   analyzer_graph, held, worker, visitor, DEFAULT_CONFIG, configs>>

ResolverNext ==
    \/ ResolverResolveImport
    \/ ResolverBuildFileGraph

ResolverSpec == ResolverInit /\ [][ResolverNext]_vars

----------------------------------------------------------------------------
(* build_entity_graph on a parsed collection, followed by mark_cycles on    *)
(* the graph it returned, as cli.analyze does in entity mode.               *)

\* a function defined twice in one file: the second def replaces the first
Redefined ==
    File("/p/k.py", "python", "ok", TRUE,
         "def n():\n    if a:\n        pass\ndef n():\n    pass\n",
         <<PyFunctionDef("n", <<>>, <<Compound("If", <<>>, <<>>)>>),
           PyFunctionDef("n", <<>>, <<>>)>>)

\* a method P.n and a function n, called through `P.n` and through `n`
Qualified ==
    File("/p/q.py", "python", "ok", TRUE,
         "class P:\n    def n(self):\n        pass\ndef n():\n    pass\ndef run():\n    P.n()\ndef go():\n    n()\n",
         <<PyClassDef("P", <<PyFunctionDef("n", <<>>, <<>>)>>),
           PyFunctionDef("n", <<>>, <<>>),
           PyFunctionDef("run", <<CallAttr("P", "n")>>, <<>>),
           PyFunctionDef("go", <<CallName("n")>>, <<>>)>>)

\* a method named as the functions of XU and YU are
RHelper ==
    File("/p/r.py", "python", "ok", TRUE,
         "class R:\n    def helper(self):\n        pass\n",
         <<PyClassDef("R", <<PyFunctionDef("helper", <<>>, <<>>)>>)>>)

EntitySources == {XU, YU, RHelper, Qualified, Redefined}

\* the parsed collections of at most MaxFiles + 1 files
EntityCollections ==
    {[i \in 1..Len(c) |-> ParseFile(c[i]).parsed] :
        c \in {q \in SeqsUpTo(EntitySources, MaxFiles + 1) :
                  /\ Len(q) >= 1
                  /\ \A i, j \in 1..Len(q) : i # j => q[i].path # q[j].path}}

EntityInit ==
    /\ files = <<>>
    /\ next_file = 1
    /\ parsed_files \in EntityCollections
    /\ parse_failed = {}
    /\ file_graph = EmptyGraph
    /\ entity_graph = EmptyGraph
    /\ analyzer_graph = "none"
    /\ pc = "entity"
    /\ last_op = Op("init")
    /\ result = <<>>
    /\ held = NoneHeld
    /\ worker = <<>>
    /\ visitor = <<>>
    /\ DEFAULT_CONFIG = DefaultConfig
    /\ configs = <<>>

\* graph = graph_builder.build_entity_graph(parsed_files)
EntityBuildEntityGraph ==
    /\ pc = "entity"
    /\ entity_graph' = BuildEntityGraphInto(entity_graph, parsed_files)
    /\ analyzer_graph' = "entity_graph"
    /\ result' = <<>>
    /\ last_op' = Op("build_entity_graph")
    /\ pc' = "entity_built"
    /\ UNCHANGED <<files, next_file, parsed_files, parse_failed, file_graph,
                   held, worker, visitor, DEFAULT_CONFIG, configs>>

\* analyzer.mark_cycles()
EntityMarkCycles ==
    /\ pc = "entity_built"
    /\ WriteAnalyzed(MarkCycles(AnalyzedGraph))
    /\ result' = <<>>
    /\ last_op' = Op("mark_cycles")
    /\ pc' = "entity_marked"
    /\ UNCHANGED <<files, next_file, parsed_files, parse_failed, analyzer_graph,
                   held, worker, visitor, DEFAULT_CONFIG, configs>>

EntityNext ==
    \/ EntityBuildEntityGraph
    \/ EntityMarkCycles

EntitySpec == EntityInit /\ [][EntityNext]_vars

----------------------------------------------------------------------------
(* Config instances constructed one after another in one process: by       *)
(* cli.analyze with the command line's thresholds, or directly.             *)

\* the contents of the config files given
FileConfigs ==
    <<NoUpdate,
      [thresholds |-> DictValue([min_duplicate_lines |-> 9])],
      [ignore_patterns |-> ListValue(<<"build">>)]>>

\* the overrides given to a direct construction
DirectOverrides ==
    <<NoUpdate,
      [detectors |-> DictValue([comments |-> FALSE])],
      [entry_points |-> ListValue(<<"run.py">>)]>>

\* --threshold-lines, --threshold-nesting (the defaults and another value)
ThresholdLines == {50, 10}
ThresholdNesting == {4, 2}
\* --ignore-patterns
IgnorePatterns == {<<>>, <<"build">>}

\* config_overrides of analyze
AnalyzeOverrides(threshold_lines, threshold_nesting, ignore_patterns) ==
    LET thresholds == DictValue([max_function_lines |-> threshold_lines,
                                 max_nesting_depth |-> threshold_nesting])
    IN  IF ignore_patterns # <<>>
        THEN [thresholds |-> thresholds, ignore_patterns |-> ListValue(ignore_patterns)]
        ELSE [thresholds |-> thresholds]

ConfigInit ==
    /\ files = <<>>
    /\ next_file = 1
    /\ parsed_files = <<>>
    /\ parse_failed = {}
    /\ file_graph = EmptyGraph
    /\ entity_graph = EmptyGraph
    /\ analyzer_graph = "none"
    /\ pc = "config"
    /\ last_op = Op("init")
    /\ result = <<>>
    /\ held = NoneHeld
    /\ worker = <<>>
    /\ visitor = <<>>
    /\ DEFAULT_CONFIG = DefaultConfig
    /\ configs = <<>>

\* the construction leaves DEFAULT_CONFIG's objects and the new instance
Constructed(heap, plain, name) ==
    /\ DEFAULT_CONFIG' = heap.defaults
    /\ configs' = Append(configs, [config |-> heap.config, plain |-> plain])
    /\ last_op' = Op(name)
    /\ UNCHANGED <<files, next_file, parsed_files, parse_failed, file_graph,
                   entity_graph, analyzer_graph, pc, result, held, worker, visitor>>

\* Config(config_path, overrides)
ConfigConstruct ==
    /\ pc = "config"
    /\ Len(configs) < MaxConfigs
    /\ \E i \in 1..Len(FileConfigs), j \in 1..Len(DirectOverrides) :
          Constructed(ConfigNew(DEFAULT_CONFIG, FileConfigs[i], DirectOverrides[j]),
                      i = 1 /\ j = 1, "Config")

\* cfg = Config(config_path=config, overrides=config_overrides) in analyze
ConfigAnalyze ==
    /\ pc = "config"
    /\ Len(configs) < MaxConfigs
    /\ \E i \in 1..Len(FileConfigs), threshold_lines \in ThresholdLines,
          threshold_nesting \in ThresholdNesting, ignore_patterns \in IgnorePatterns :
          Constructed(ConfigNew(DEFAULT_CONFIG, FileConfigs[i],
                                AnalyzeOverrides(threshold_lines, threshold_nesting,
                                                 ignore_patterns)),
                      FALSE, "analyze")

ConfigNext ==
    \/ ConfigConstruct
    \/ ConfigAnalyze

ConfigSpec == ConfigInit /\ [][ConfigNext]_vars

----------------------------------------------------------------------------
(* Graph-theoretic vocabulary for the analyzer properties *)

NoRepeat(c) == \A i, j \in 1..Len(c) : i # j => c[i] # c[j]

\* elementary cycles: closed walks over edges of g that repeat no node
ElementaryCycles(g) ==
    {c \in SeqsUpTo(NodeSet(g), Len(g.nodes)) :
        /\ Len(c) >= 1
        /\ NoRepeat(c)
        /\ \A i \in 1..Len(c) : <<c[i], c[(i % Len(c)) + 1]>> \in g.edges}

IsRotation(a, b) ==
    /\ Len(a) = Len(b)
    /\ \E shift \in 0..(Len(a) - 1) :
          \A i \in 1..Len(a) : a[i] = b[((i - 1 + shift) % Len(a)) + 1]

\* n lies on an elementary cycle of at least two nodes
OnProperCycle(g, n) == \E c \in ElementaryCycles(g) : Len(c) >= 2 /\ n \in Range(c)

NoIncoming(g, n) == ~\E m \in NodeSet(g) : <<m, n>> \in g.edges

IsSubstring(sub, s) ==
    \E i \in 0..Len(s) : i + Len(sub) <= Len(s) /\ SubSeq(s, i + 1, i + Len(sub)) = sub

----------------------------------------------------------------------------
(* Parser and builder properties *)

\* C1 (as claimed): for the project of exactly a.py and b.py, build_file_graph
\* yields the edges a.py->b.py and b.py->a.py and find_circular_dependencies
\* returns exactly one cycle, the 2-cycle over a.py and b.py.
C1_RoundTripFileCycle ==
    (/\ files = <<ModuleA, ModuleB>>
     /\ analyzer_graph = "file_graph"
     /\ last_op.name = "find_circular_dependencies")
    => /\ file_graph.edges = {<<"a.py", "b.py">>, <<"b.py", "a.py">>}
       /\ Len(result) = 1
       /\ Len(result[1]) = 2
       /\ Range(result[1]) = {"a.py", "b.py"}

\* C2 (as claimed): for the same two files build_entity_graph yields the edges
\* a.py::fa -> b.py::fb and b.py::fb -> a.py::fa, and find_circular_dependencies
\* returns a 2-cycle between the two entities.
C2_RoundTripEntityCycle ==
    (/\ files = <<ModuleA, ModuleB>>
     /\ analyzer_graph = "entity_graph"
     /\ last_op.name = "find_circular_dependencies")
    => /\ {<<"a.py::fa", "b.py::fb">>, <<"b.py::fb", "a.py::fa">>} \subseteq entity_graph.edges
       /\ \E k \in 1..Len(result) :
             Len(result[k]) = 2 /\ Range(result[k]) = {"a.py::fa", "b.py::fb"}

\* C3 (as claimed): the graph build_file_graph returns has no edge from a file
\* node to itself, whichever resolution step produced the target.
C3_NoFileSelfEdge ==
    \A n \in NodeSet(file_graph) : <<n, n>> \notin file_graph.edges

\* a definition of the collection that records a call to its own bare name
CallsOwnName(pfs) ==
    \E i \in 1..Len(pfs) : \E k \in 1..Len(pfs[i].definitions) :
        LET d == pfs[i].definitions[k] IN d.name \in Range(d.calls)

\* a method of the collection that records a call to its own qualified name
CallsOwnQualifiedName(pfs) ==
    \E i \in 1..Len(pfs) : \E k \in 1..Len(pfs[i].definitions) :
        LET d == pfs[i].definitions[k]
        IN  d.parent # None /\ (d.parent \o "." \o d.name) \in Range(d.calls)

\* C4: the graph build_entity_graph returns has no edge from an entity node to
\* itself, also when a definition calls its own bare or qualified name.
C4_NoEntitySelfEdge ==
    \A n \in NodeSet(entity_graph) : <<n, n>> \notin entity_graph.edges

C4_Witness ==
    /\ last_op.name = "build_entity_graph"
    /\ CallsOwnName(parsed_files)
    /\ CallsOwnQualifiedName(parsed_files)
    /\ Len(entity_graph.nodes) >= 3

\* C10 (as claimed): parse_file returns a ParsedFile for every input path and
\* never raises, so every discovered file appears in the collection handed to
\* the graph builder; a file that cannot be read appears with empty imports,
\* definitions and comments.
C10_ParseNeverRaises ==
    /\ parse_failed = {}
    /\ Len(parsed_files) = next_file - 1
    /\ \A i \in 1..Len(parsed_files) :
          /\ parsed_files[i].file_path = files[i].path
          /\ (files[i].access = "unreadable" =>
                /\ parsed_files[i].imports = <<>>
                /\ parsed_files[i].definitions = <<>>
                /\ parsed_files[i].comments = <<>>)

----------------------------------------------------------------------------
(* Analyzer properties *)

\* C5: after mark_cycles every node has an in_cycle flag, true iff the node
\* belongs to a cycle find_circular_dependencies returns for the same graph;
\* a node whose only cycle is a self-loop is flagged false.
C5_NodeFlagsMatchCycles ==
    last_op.name = "mark_cycles" =>
        LET g == AnalyzedGraph
            cycles == FindCircularDependencies(g)
        IN  \A n \in NodeSet(g) :
                /\ n \in DOMAIN g.node_in_cycle
                /\ g.node_in_cycle[n] = (\E k \in 1..Len(cycles) : n \in Range(cycles[k]))
                /\ (~OnProperCycle(g, n) => g.node_in_cycle[n] = FALSE)

C5_Witness ==
    /\ last_op.name = "mark_cycles"
    /\ \E n, m \in NodeSet(AnalyzedGraph) :
          /\ AnalyzedGraph.node_in_cycle[n] = TRUE
          /\ <<m, m>> \in AnalyzedGraph.edges
          /\ AnalyzedGraph.node_in_cycle[m] = FALSE

\* C6 (as claimed): after mark_cycles every edge's in_cycle flag is true iff
\* the edge is a consecutive step of some returned cycle, false otherwise.
C6_EdgeFlagsFullyOverwritten ==
    last_op.name = "mark_cycles" =>
        LET g == AnalyzedGraph
            cycles == FindCircularDependencies(g)
        IN  \A e \in g.edges :
                EdgeInCycle(g, e) = (\E k \in 1..Len(cycles) : e \in CycleSteps(cycles[k]))

\* C7: find_stranded_nodes returns a node iff its in-degree is 0 and no
\* entry-point fragment is a substring of its id; with entry_points absent or
\* empty it returns exactly the in-degree-0 nodes.
C7_StrandedNodes ==
    last_op.name = "find_stranded_nodes" =>
        LET g == AnalyzedGraph
            eps == last_op.entry_points.items
        IN  /\ Range(result) =
                {n \in NodeSet(g) :
                    NoIncoming(g, n) /\ ~\E i \in 1..Len(eps) : IsSubstring(eps[i], n)}
            /\ (eps = <<>> => Range(result) = {n \in NodeSet(g) : NoIncoming(g, n)})

C7_Witness ==
    /\ last_op.name = "find_stranded_nodes"
    /\ last_op.entry_points.items = <<"main.py">>
    /\ NoIncoming(AnalyzedGraph, "main.py")
    /\ "main.py" \in NodeSet(AnalyzedGraph)
    /\ "main.py" \notin Range(result)
    /\ "orphan.py" \in Range(result)

\* C8: find_circular_dependencies returns every elementary cycle of at least
\* two nodes exactly once up to rotation and nothing else (no self-loop, no
\* walk repeating a node); without such a cycle it returns the empty list.
C8_AllElementaryCyclesOnce ==
    last_op.name = "find_circular_dependencies" =>
        LET g == AnalyzedGraph
        IN  /\ \A k \in 1..Len(result) :
                  result[k] \in ElementaryCycles(g) /\ Len(result[k]) >= 2
            /\ \A c \in ElementaryCycles(g) :
                  Len(c) >= 2 =>
                      Cardinality({k \in 1..Len(result) : IsRotation(result[k], c)}) = 1
            /\ ((\A c \in ElementaryCycles(g) : Len(c) < 2) => result = <<>>)

C8_Witness ==
    /\ last_op.name = "find_circular_dependencies"
    /\ Len(result) >= 1
    /\ Len(SimpleCycles(AnalyzedGraph)) > Len(result)
    /\ \E n \in NodeSet(AnalyzedGraph) : <<n, n>> \in AnalyzedGraph.edges

\* C9: the list find_circular_dependencies returns is ordered shortest-first.
C9_ShortestFirst ==
    last_op.name = "find_circular_dependencies" =>
        \A i, j \in 1..Len(result) : i < j => Len(result[i]) <= Len(result[j])

C9_Witness ==
    /\ last_op.name = "find_circular_dependencies"
    /\ Len(result) >= 2
    /\ Len(result[1]) < Len(result[Len(result)])
    /\ Len(SimpleCycles(AnalyzedGraph)[1]) > Len(result[1])

----------------------------------------------------------------------------
(* Parser properties *)

\* the ParsedFile the run holds for a discovered file, if it holds one
ParsedOf(f) == SelectSeq(parsed_files, LAMBDA p : p.file_path = f.path)

\* the number of lines of a text that are neither blank nor comment lines
CodeLineCount(content) ==
    LET lines == Split(content, "\n")
        skipped == {i \in 1..Len(lines) :
                       \/ Strip(lines[i]) = ""
                       \/ StartsWith(Strip(lines[i]), "#")
                       \/ StartsWith(Strip(lines[i]), "//")}
    IN  Len(lines) - Cardinality(skipped)

\* C11: for a readable Python file whose text has a syntax error, parse_file
\* raises nothing and returns a ParsedFile whose raw_content is the text,
\* whose lines_of_code is computed from the text and whose imports,
\* definitions and comments are all empty; the file is in the collection.
C11_SyntaxErrorYieldsBareParsedFile ==
    \A i \in 1..(next_file - 1) :
        LET f == files[i]
        IN  (f.language = "python" /\ f.access # "unreadable" /\ ~f.syntax_ok) =>
                /\ f.path \notin parse_failed
                /\ Len(ParsedOf(f)) = 1
                /\ ParsedOf(f)[1].raw_content = ReadFile(f).content
                /\ ParsedOf(f)[1].lines_of_code = CodeLineCount(ReadFile(f).content)
                /\ ParsedOf(f)[1].imports = <<>>
                /\ ParsedOf(f)[1].definitions = <<>>
                /\ ParsedOf(f)[1].comments = <<>>

C11_Witness ==
    /\ pc = "done"
    /\ \E i \in 1..Len(files) : files[i] = Broken
    /\ Len(parsed_files) = 2
    /\ ParsedOf(Broken)[1].lines_of_code = 3
    /\ \E k \in 1..Len(parsed_files) : parsed_files[k].definitions # <<>>

\* the primary path of JavaScriptParser.parse_file runs through for the file
JsPrimaryCompletes(f) ==
    /\ f.syntax_ok
    /\ ~JsExtractImportsRaises(JsTree(f))
    /\ ~JsExtractDefinitionsRaises(JsTree(f))
    /\ ~JsExtractCommentsRaises(f, ReadFile(f).content)

\* C12: in every ParsedFile of JavaScriptParser.parse_file, imports,
\* definitions and comments come from one extraction path: all three from
\* the grammar parse, or, when the primary path fails at any step, imports
\* and comments from the regex fallback with definitions empty.
C12_OneExtractionPath ==
    \A i \in 1..(next_file - 1) :
        LET f == files[i]
            p == ParsedOf(f)[1]
        IN  (f.language # "python" /\ f.access # "unreadable") =>
                /\ Len(ParsedOf(f)) = 1
                /\ IF JsPrimaryCompletes(f)
                   THEN /\ p.imports = JsExtractImports(JsTree(f))
                        /\ p.definitions = JsExtractDefinitions(JsTree(f))
                        /\ p.comments = JsExtractComments(f, ReadFile(f).content)
                   ELSE /\ p.imports = JsExtractImportsRegex(f)
                        /\ p.definitions = <<>>
                        /\ p.comments = JsExtractCommentsRegex(ReadFile(f).content)

C12_Witness ==
    /\ pc = "done"
    /\ Len(parsed_files) = 2
    /\ \E i, j \in 1..Len(files) : files[i] = JsAnon /\ files[j] = JsNode
    /\ ParsedOf(JsAnon)[1].imports # JsExtractImports(JsAnon.stmts)
    /\ ParsedOf(JsNode)[1].comments # <<>>

----------------------------------------------------------------------------
(* Builder properties *)

IsBuild(op) == op.name \in {"build_file_graph", "build_entity_graph"}

\* C13 (as claimed): each build call returns a freshly constructed graph
\* object, so the graph an earlier call returned keeps its nodes, edges and
\* in_cycle annotations after a later call with another collection.
C13_EarlierGraphKept ==
    (pc = "builder_rebuilt" /\ IsBuild(last_op)) => GraphOf(held.obj) = held.graph

\* the relative paths of a collection
RelPaths(pfs) == {GetRelativePath(pfs[i].file_path) : i \in 1..Len(pfs)}

\* the entity ids of a collection
EntityIds(pfs) == {EntityId(d[1], d[2]) : d \in Range(AllDefinitions(pfs))}

\* C14: the graph a build call returns is determined by the collection passed
\* to that call (and the root directory) alone: no node, edge or in_cycle
\* flag of an earlier build or mark_cycles call appears in it unless the
\* current collection produces it.
C14_BuildDeterminedByCollection ==
    (pc \in {"builder_built", "builder_rebuilt"} /\ IsBuild(last_op)) =>
        LET g == GraphOf(analyzer_graph)
            file == last_op.name = "build_file_graph"
        IN  /\ g = IF file THEN BuildFileGraph(parsed_files)
                   ELSE BuildEntityGraph(parsed_files)
            /\ NodeSet(g) = IF file THEN RelPaths(parsed_files)
                            ELSE EntityIds(parsed_files)
            /\ DOMAIN g.node_in_cycle = {}
            /\ DOMAIN g.edge_in_cycle = {}

C14_Witness ==
    /\ pc = "builder_rebuilt"
    /\ IsBuild(last_op)
    /\ held.obj = analyzer_graph
    /\ \E n \in NodeSet(held.graph) :
          NodeInCycle(held.graph, n) /\ n \in NodeSet(GraphOf(analyzer_graph))
    /\ \E n \in NodeSet(held.graph) : n \notin NodeSet(GraphOf(analyzer_graph))
    /\ \E e \in held.graph.edges :
          EdgeInCycle(held.graph, e) /\ e \notin GraphOf(analyzer_graph).edges

\* every ordering of a collection
Orderings(pfs) ==
    {[i \in 1..Len(pfs) |-> pfs[f[i]]] :
        f \in {h \in [1..Len(pfs) -> 1..Len(pfs)] :
                  \A i, j \in 1..Len(pfs) : i # j => h[i] # h[j]}}

\* same node set and same edge set
SameNodesAndEdges(g, h) == NodeSet(g) = NodeSet(h) /\ g.edges = h.edges

\* no two files write the same key of the module index, and no two
\* definitions the same key of the entity index
NoIndexCollision(pfs) ==
    LET defs == AllDefinitions(pfs)
    IN  /\ \A i, j \in 1..Len(pfs) :
              i # j => DOMAIN MapFile(<<>>, pfs[i]) \cap DOMAIN MapFile(<<>>, pfs[j]) = {}
        /\ \A i, j \in 1..Len(defs) :
              i # j => DOMAIN MapEntity(<<>>, defs[i][1], defs[i][2])
                         \cap DOMAIN MapEntity(<<>>, defs[j][1], defs[j][2]) = {}

\* C15 (as claimed): the file graph and the entity graph have the same node
\* set and edge set for every ordering of the files in the collection, also
\* when two files share a bare filename or two definitions a bare name.
C15_OrderIndependent ==
    (pc = "builder_built" /\ IsBuild(last_op)) =>
        \A q \in Orderings(parsed_files) :
            /\ SameNodesAndEdges(BuildFileGraph(q), BuildFileGraph(parsed_files))
            /\ SameNodesAndEdges(BuildEntityGraph(q), BuildEntityGraph(parsed_files))

\* C15 (amended): the node sets are the same for every ordering; the edge
\* sets are the same for every ordering when no two files write the same key
\* of the module index and no two definitions the same key of the entity
\* index.
C15_OrderIndependentWithoutCollision ==
    (pc = "builder_built" /\ IsBuild(last_op)) =>
        \A q \in Orderings(parsed_files) :
            /\ NodeSet(BuildFileGraph(q)) = NodeSet(GraphOf("file_graph"))
                  \/ last_op.name # "build_file_graph"
            /\ NodeSet(BuildEntityGraph(q)) = NodeSet(GraphOf("entity_graph"))
                  \/ last_op.name # "build_entity_graph"
            /\ NoIndexCollision(parsed_files) =>
                  SameNodesAndEdges(
                      IF last_op.name = "build_file_graph"
                      THEN BuildFileGraph(q) ELSE BuildEntityGraph(q),
                      GraphOf(analyzer_graph))

C15_Witness ==
    /\ pc = "builder_built"
    /\ last_op.name = "build_file_graph"
    /\ Len(parsed_files) = 2
    /\ NoIndexCollision(parsed_files)
    /\ \E i \in 1..2 : \E k \in 1..Len(parsed_files[i].imports) :
          Len(PartialMatches(parsed_files[i].imports[k].module, parsed_files)) = 2
    /\ Cardinality(file_graph.edges) >= 3

\* the files an import of a parsed file resolves to
ResolvedTargets(pfs, pf, imp) ==
    Range(ResolveImport(imp.module, pf.file_path, CreateModuleMapping(pfs), pfs))

\* C16: every edge A->B of the file graph corresponds to an import recorded
\* in file A that resolves to B, the node of a file of the parsed collection;
\* an import that resolves to no known file adds no edge and no node and
\* raises no error, so the node set is exactly the set of parsed files.
C16_FileEdgesAreResolvedImports ==
    last_op.name = "build_file_graph" =>
        /\ NodeSet(file_graph) = RelPaths(parsed_files)
        /\ Len(file_graph.nodes) = Cardinality(RelPaths(parsed_files))
        /\ \A e \in file_graph.edges :
              /\ e[2] \in RelPaths(parsed_files)
              /\ \E i \in 1..Len(parsed_files) :
                    /\ GetRelativePath(parsed_files[i].file_path) = e[1]
                    /\ \E k \in 1..Len(parsed_files[i].imports) :
                          e[2] \in ResolvedTargets(parsed_files, parsed_files[i],
                                                   parsed_files[i].imports[k])

C16_Witness ==
    /\ last_op.name = "build_file_graph"
    /\ pc = "cycles"
    /\ file_graph.edges # {}
    /\ \E i \in 1..Len(parsed_files) : \E k \in 1..Len(parsed_files[i].imports) :
          ResolvedTargets(parsed_files, parsed_files[i], parsed_files[i].imports[k]) = {}
    /\ \E i \in 1..Len(parsed_files) : parsed_files[i].imports = <<>>

----------------------------------------------------------------------------
(* Properties of the analyzer operations *)

\* C17: no GraphAnalyzer operation adds or removes a node or an edge of the
\* graph it was given; mark_cycles changes only in_cycle attributes, and
\* every other operation changes nothing of the graph at all.
C17_OperationsKeepGraph ==
    [][pc = "api" =>
          /\ AnalyzedGraph'.nodes = AnalyzedGraph.nodes
          /\ AnalyzedGraph'.edges = AnalyzedGraph.edges
          /\ AnalyzedGraph'.node_data = AnalyzedGraph.node_data
          /\ (last_op'.name # "mark_cycles" => AnalyzedGraph' = AnalyzedGraph)
          /\ entity_graph' = entity_graph]_vars

C17_Witness ==
    /\ last_op.name = "get_node_data"
    /\ last_op.node \in NodeSet(AnalyzedGraph)
    /\ result.in_cycle = <<TRUE>>
    /\ "cluster" \notin DOMAIN result.data
    /\ \E e \in AnalyzedGraph.edges : EdgeInCycle(AnalyzedGraph, e)
    /\ Len(AnalyzedGraph.nodes) >= 3

\* C20: get_dependencies(id) returns exactly the direct successors of id and
\* get_dependents(id) exactly its direct predecessors; for an id that is not
\* in the graph both return the empty set and raise nothing.
C20_DirectNeighbours ==
    LET g == AnalyzedGraph
    IN  /\ last_op.name = "get_dependencies" =>
              result = {w \in NodeSet(g) : <<last_op.node, w>> \in g.edges}
        /\ last_op.name = "get_dependents" =>
              result = {u \in NodeSet(g) : <<u, last_op.node>> \in g.edges}
        /\ (last_op.name \in {"get_dependencies", "get_dependents"}
              /\ last_op.node \notin NodeSet(g)) => result = {}

C20_Witness ==
    /\ last_op.name = "get_dependencies"
    /\ last_op.node \in NodeSet(AnalyzedGraph)
    /\ result # {}
    /\ result # GetDependents(AnalyzedGraph, last_op.node)
    /\ \E w \in result : \E x \in NodeSet(AnalyzedGraph) :
          <<w, x>> \in AnalyzedGraph.edges /\ x \notin result

----------------------------------------------------------------------------
(* Properties of the order of the steps of an analyze run *)

\* the files the parse loop has been through
Visited == SubSeq(files, 1, next_file - 1)

\* parse_file returns for the file
ParseReturns(source_file) == ~ParseFile(source_file).raised

\* the files of a list whose parse_file call returns, in the list's order
Succeeded(fs) == SelectSeq(fs, ParseReturns)

\* the paths of a list of files
PathsOf(fs) == {fs[i].path : i \in 1..Len(fs)}

\* the ParsedFiles of a list of files
ParsedAll(fs) == [i \in 1..Len(fs) |-> ParseFile(fs[i]).parsed]

\* the graph the run's build call constructs from a collection
BuiltFrom(pfs) ==
    IF analyzer_graph = "entity_graph" THEN BuildEntityGraph(pfs) ELSE BuildFileGraph(pfs)

\* C18: in an analyze run, graph construction starts only after parse_file
\* has returned or failed for every discovered file; a failure while parsing
\* one file never prevents the remaining files from being parsed nor the
\* graph from being built from the files that succeeded; cycle and stranded
\* analysis start only after the graph is fully built.
C18_ParseThenBuildThenAnalyze ==
    /\ parsed_files = ParsedAll(Succeeded(Visited))
    /\ parse_failed = PathsOf(Visited) \ PathsOf(Succeeded(Visited))
    /\ pc = "parse" =>
          /\ file_graph = EmptyGraph /\ entity_graph = EmptyGraph
          /\ analyzer_graph = "none"
          /\ last_op.name \in {"init", "parse_file"}
    /\ pc # "parse" =>
          /\ Visited = files
          /\ analyzer_graph # "none"
          /\ SameNodesAndEdges(AnalyzedGraph, BuiltFrom(parsed_files))
    /\ last_op.name \in {"find_circular_dependencies", "find_stranded_nodes", "mark_cycles"}
          => pc \in {"stranded", "mark", "detect"}

C18_Witness ==
    /\ pc = "mark"
    /\ last_op.name = "find_stranded_nodes"
    /\ Len(files) >= 2
    /\ files[1].path \in parse_failed
    /\ files[Len(files)].path \notin parse_failed
    /\ Len(parsed_files) = Len(files) - 1
    /\ NodeSet(AnalyzedGraph) # {}

----------------------------------------------------------------------------
(* Properties of concurrent parsing *)

\* the file a returned ParsedFile was parsed from
SourceOf(parsed) ==
    CHOOSE f \in WellFormedPool :
        f.path = parsed.file_path /\ f.content = parsed.raw_content

\* C19: the result of parse_file depends only on the file's path and
\* content: every call on a well-formed file returns the ParsedFile a call
\* running alone returns, and two calls on the same file return identical
\* ParsedFiles, also when the calls of the workers overlap and interleave.
\* (parsed_files only grows, so every ParsedFile is the last one in the state
\* its call returns to.)
C19_ParseDependsOnFileOnly ==
    pc = "workers" =>
        /\ \A i \in {Len(parsed_files)} \ {0} :
              parsed_files[i] = ParseFile(SourceOf(parsed_files[i])).parsed
        /\ \A i, j \in 1..Len(parsed_files) :
              (/\ parsed_files[i].file_path = parsed_files[j].file_path
               /\ parsed_files[i].raw_content = parsed_files[j].raw_content)
                  => parsed_files[i] = parsed_files[j]

C19_Witness ==
    /\ pc = "workers"
    /\ Len(parsed_files) >= 2
    /\ parsed_files[1] = parsed_files[2]
    /\ last_op.name = "parse_file"
    /\ last_op.overlapped
    /\ \E d \in Range(parsed_files[2].definitions) : d.type = "method"
    /\ \E d \in Range(parsed_files[2].definitions) : d.type = "function"

----------------------------------------------------------------------------
(* Properties of import resolution *)

\* the candidates a relative reference is probed with, in probing order
Candidates(module, source_file) ==
    LET current_dir == WalkParts(Dirname(GetRelativePath(source_file)), Split(module, "/"))
    IN  [k \in 1..Len(ProbeSuffixes) |-> current_dir \o ProbeSuffixes[k]]

\* the relative paths that contain the module string, dots as separators
Containing(module, pfs) ==
    {rel \in RelPaths(pfs) : StrIn(Replace(module, ".", "/"), rel)}

\* C21: _resolve_import applies its steps in order and the first match wins:
\* an indexed module string resolves to exactly the one indexed file; a
\* relative reference that is not indexed resolves to the first probed
\* candidate found in the index, or to nothing, and never to what substring
\* containment would give; only a non-relative module string that is not
\* indexed uses substring containment.
C21_FirstMatchWins ==
    last_op.name = "_resolve_import" =>
        LET module == last_op.module
            index == CreateModuleMapping(parsed_files)
            cands == Candidates(module, last_op.source_file)
            found == {k \in 1..Len(cands) : cands[k] \in DOMAIN index}
        IN  IF module \in DOMAIN index THEN result = <<index[module]>>
            ELSE IF StartsWith(module, ".")
            THEN IF found = {} THEN result = <<>>
                 ELSE \E k \in found :
                        /\ \A j \in found : k <= j
                        /\ result = <<index[cands[k]]>>
            ELSE /\ Range(result) = Containing(module, parsed_files)
                 /\ Len(result) = Cardinality(Range(result))

C21_Witness ==
    /\ last_op.name = "_resolve_import"
    /\ last_op.module = "."
    /\ last_op.module \notin DOMAIN CreateModuleMapping(parsed_files)
    /\ result = <<>>
    /\ Containing(last_op.module, parsed_files) # {}
    /\ Len(parsed_files) >= 2

\* the JS/TS source extensions
JsExtensions == {".js", ".jsx", ".ts", ".tsx"}

\* the module strings './name' a parsed file imports, as names
SiblingNames(pf) ==
    {SubSeq(pf.imports[k].module, 3, Len(pf.imports[k].module)) :
        k \in {j \in 1..Len(pf.imports) :
                  /\ StartsWith(pf.imports[j].module, "./")
                  /\ ~StrIn("/", SubSeq(pf.imports[j].module, 3, Len(pf.imports[j].module)))}}

\* C28: a JS/TS relative import './x' made by a file in directory d resolves
\* to the parsed file d/x.<ext> whenever that file exists, also when a file
\* x.<ext> exists at the project root: the file-graph edge points to the
\* sibling in d and not to the root-level file.
C28_SiblingPreferred ==
    last_op.name = "build_file_graph" =>
        \A i \in 1..Len(parsed_files) :
            LET pf == parsed_files[i]
                rel == GetRelativePath(pf.file_path)
                d == Dirname(rel)
            IN  (pf.language # "python" /\ d # "") =>
                    \A name \in SiblingNames(pf), ext \in JsExtensions :
                        (/\ (d \o "/" \o name \o ext) \in RelPaths(parsed_files)
                         /\ d \o "/" \o name \o ext # rel) =>
                            /\ <<rel, d \o "/" \o name \o ext>> \in file_graph.edges
                            /\ \A other \in JsExtensions :
                                  <<rel, name \o other>> \notin file_graph.edges


----------------------------------------------------------------------------
(* Properties of the definitions the parsers record *)

\* the ParsedFile the last parse_file call of a worker returned
LastReturned ==
    IF pc = "workers" /\ parsed_files # <<>>
    THEN {parsed_files[Len(parsed_files)]} ELSE {}

\* a statement that defines a function: def, function declaration, method,
\* or a variable whose value is a function expression or an arrow function
IsFunctionNode(node) ==
    \/ node.kind \in {"FunctionDef", "FunctionDeclaration", "MethodDefinition"}
    \/ /\ node.kind = "VariableDeclaration"
       /\ node.init \in {"FunctionExpression", "ArrowFunctionExpression"}

IsClassNode(node) == node.kind \in {"ClassDef", "ClassDeclaration"}

\* the names defined by the top-level functions and classes of a file and by
\* the members of its top-level classes
TopLevelNames(f) ==
    {n.name : n \in {m \in Range(f.stmts) : IsFunctionNode(m) \/ IsClassNode(m)}}
    \cup UNION {{m.name : m \in {k \in Range(n.body) : IsFunctionNode(k)}} :
                   n \in {c \in Range(f.stmts) : IsClassNode(c)}}

\* the names of the functions defined inside the body of a function
RECURSIVE InnerNames(_, _)
InnerNames(stmts, inside) ==
    IF stmts = <<>> THEN {}
    ELSE LET node == Head(stmts)
         IN  (IF inside /\ IsFunctionNode(node) THEN {node.name} ELSE {})
             \cup InnerNames(node.body, inside \/ IsFunctionNode(node))
             \cup InnerNames(Tail(stmts), inside)

NodeOf(pf, d) ==
    CHOOSE node \in Range(JsWalk(SourceOf(pf).stmts)) :
        IsFunctionNode(node) /\ node.name = d.name

\* every call expression below a statement, the statement's own included
CallsBelow(node) ==
    LET nodes == JsWalk(<<node>>)
    IN  Flatten([i \in 1..Len(nodes) |-> nodes[i].calls])

\* how often a target string occurs in a list of targets
Occurrences(targets, t) == Cardinality({i \in 1..Len(targets) : targets[i] = t})

\* the call expressions of a list whose callee has a given shape
BareCalls(calls) == SelectSeq(calls, LAMBDA c : c.func = "Name")
OneLevelCalls(calls) == SelectSeq(calls, LAMBDA c : c.func = "Attribute" /\ c.value = "Name")
DeeperCalls(calls) == SelectSeq(calls, LAMBDA c : c.func = "Attribute" /\ c.value # "Name")

\* C26: for each call expression inside a definition the recorded target is
\* the bare name for a bare-name callee, `object.method` for a one-level
\* attribute access on a bare name, and for a deeper chain the terminal
\* segment in the Python parser and nothing in the JS/TS parser.
C26_CallTargets ==
    \A pf \in LastReturned :
        \A d \in {x \in Range(pf.definitions) : x.type \in {"function", "method"}} :
            LET calls == CallsBelow(NodeOf(pf, d))
                bare == BareCalls(calls)
                one == OneLevelCalls(calls)
                deeper == DeeperCalls(calls)
                expected ==
                    [i \in 1..Len(bare) |-> bare[i].id]
                    \o [i \in 1..Len(one) |-> one[i].id \o "." \o one[i].attr]
                    \o (IF pf.language = "python"
                        THEN [i \in 1..Len(deeper) |-> deeper[i].attr]
                        ELSE <<>>)
            IN  /\ Len(d.calls) = Len(expected)
                /\ \A t \in Range(expected) \cup Range(d.calls) :
                      Occurrences(d.calls, t) = Occurrences(expected, t)

\* both parsers have returned a definition that calls through a bare name, a
\* one-level attribute and a deeper chain
C26_Witness ==
    /\ pc = "workers"
    /\ Len(parsed_files) = 2
    /\ parsed_files[1].language = "javascript"
    /\ parsed_files[2].language = "python"
    /\ \E d \in Range(parsed_files[1].definitions) :
          d.calls = <<"g", "o.m">> /\ DeeperCalls(CallsBelow(NodeOf(parsed_files[1], d))) # <<>>
    /\ \E d \in Range(parsed_files[2].definitions) :
          d.calls = <<"g", "o.m", "z">>


\* the conditional, loop and exception-handling compound statements of the
\* two languages
ConditionalKinds == {"If", "IfStatement", "SwitchStatement"}
LoopKinds ==
    {"For", "AsyncFor", "While",
     "ForStatement", "ForInStatement", "ForOfStatement", "WhileStatement",
     "DoWhileStatement"}
ExceptionKinds == {"Try", "TryStatement"}

\* the largest number of such statements nested one inside another in a
\* statement list; the branch an elif / else-if opens continues the chain of
\* the conditional it hangs from and adds no level
RECURSIVE NestedCompounds(_)
NestedCompounds(stmts) ==
    IF stmts = <<>> THEN 0
    ELSE LET node == Head(stmts)
             level == IF /\ node.kind \in ConditionalKinds \cup LoopKinds \cup ExceptionKinds
                         /\ node.name # "elif"
                      THEN 1 ELSE 0
             here == level + NestedCompounds(node.body)
             rest == NestedCompounds(Tail(stmts))
         IN  IF here > rest THEN here ELSE rest

\* C27: for every function or method Definition of either parser,
\* nesting_depth is the maximum number of conditional, loop (of every loop
\* form) and exception-handling compound statements nested one inside
\* another within the body; the branches of one elif / else-if chain are not
\* nested in each other.
C27_NestingDepth ==
    \A pf \in LastReturned :
        \A d \in {x \in Range(pf.definitions) : x.type \in {"function", "method"}} :
            d.nesting_depth = NestedCompounds(NodeOf(pf, d).body)


----------------------------------------------------------------------------
(* Properties of the entity graph *)

EntityGraphBuilt == pc \in {"entity_built", "entity_marked"}

\* the node ids of the definitions of a collection, in iteration order
IdsOf(defs) == [i \in 1..Len(defs) |-> EntityId(defs[i][1], defs[i][2])]

\* C22: build_entity_graph creates one node per definition: the number of
\* entity nodes is the number of Definitions of the collection, no two
\* definitions share a node, and a node's kind and nesting depth are those
\* of the definition it stands for.
C22_OneNodePerDefinition ==
    EntityGraphBuilt =>
        LET defs == AllDefinitions(parsed_files)
            ids == IdsOf(defs)
        IN  /\ Cardinality(NodeSet(entity_graph)) = Len(defs)
            /\ \A i, j \in 1..Len(defs) : i # j => ids[i] # ids[j]
            /\ \A i \in 1..Len(defs) :
                  /\ ids[i] \in NodeSet(entity_graph)
                  /\ entity_graph.node_data[ids[i]].type = defs[i][2].type
                  /\ entity_graph.node_data[ids[i]].nesting_depth
                        = defs[i][2].nesting_depth

\* a call target without a dot
IsBare(call) == ~StrIn(".", call)

\* a definition a call target names: by bare name, or by <parent>.<name>
Matches(defn, call) ==
    IF IsBare(call) THEN defn.name = call
    ELSE defn.parent # None /\ defn.parent \o "." \o defn.name = call

\* the positions, in iteration order, of the definitions a target names
Indexed(defs, call) == {i \in 1..Len(defs) : Matches(defs[i][2], call)}

\* the node of the definition indexed last under a target
Resolved(defs, call) ==
    LET last == CHOOSE i \in Indexed(defs, call) : \A j \in Indexed(defs, call) : j <= i
    IN  IdsOf(defs)[last]

\* the call targets recorded for the definitions of a node
CallsFrom(defs, source_id) ==
    UNION {Range(defs[i][2].calls) :
              i \in {j \in 1..Len(defs) : IdsOf(defs)[j] = source_id}}

\* the nodes a node has an edge to
Out(g, source_id) == {e[2] : e \in {x \in g.edges : x[1] = source_id}}

\* C23: when several definitions share a bare name n, an unqualified call
\* target n resolves to the one indexed last in iteration order; a call
\* target adds at most one edge, and the ambiguity raises no error.
C23_LastIndexedWins ==
    EntityGraphBuilt =>
        LET defs == AllDefinitions(parsed_files)
            ids == IdsOf(defs)
        IN  \A s \in NodeSet(entity_graph) :
                LET calls == CallsFrom(defs, s)
                    bare == {c \in calls : IsBare(c) /\ Indexed(defs, c) # {}}
                IN  /\ \A c \in bare :
                          /\ Resolved(defs, c) # s => Resolved(defs, c) \in Out(entity_graph, s)
                          /\ \A j \in Indexed(defs, c) :
                                (ids[j] # Resolved(defs, c) /\ ids[j] \in Out(entity_graph, s))
                                    => \E c2 \in calls \ {c} :
                                          /\ Indexed(defs, c2) # {}
                                          /\ Resolved(defs, c2) = ids[j]
                    /\ Cardinality(Out(entity_graph, s)) <= Cardinality(calls)

\* run of x/u.py calls helper; x/u.py and y/u.py both define helper, and
\* y/u.py is indexed last
C23_Witness ==
    /\ EntityGraphBuilt
    /\ Len(parsed_files) >= 2
    /\ parsed_files[1].file_path = XU.path
    /\ parsed_files[Len(parsed_files)].file_path = YU.path
    /\ Cardinality(Indexed(AllDefinitions(parsed_files), "helper")) >= 2
    /\ <<"x/u.py::run", "y/u.py::helper">> \in entity_graph.edges
    /\ <<"x/u.py::run", "x/u.py::helper">> \notin entity_graph.edges

\* C24: a call target `P.n` is matched against the exact qualified form
\* first: when a definition with parent P and name n is indexed the edge goes
\* to its node <file>::P.n and never to a definition that merely has the
\* bare name n; an unqualified target n is matched by bare name against all
\* definitions, methods included.
C24_QualifiedFirst ==
    EntityGraphBuilt =>
        LET defs == AllDefinitions(parsed_files)
            ids == IdsOf(defs)
        IN  \A s \in NodeSet(entity_graph) :
                LET calls == CallsFrom(defs, s)
                    known == {c \in calls : Indexed(defs, c) # {}}
                IN  /\ \A c \in {x \in known : ~IsBare(x)} :
                          LET t == Resolved(defs, c)
                              n == Split(c, ".")[2]
                          IN  /\ t # s => t \in Out(entity_graph, s)
                              /\ entity_graph.node_data[t].parent \o "."
                                    \o entity_graph.node_data[t].name = c
                              /\ EndsWith(t, "::" \o c)
                              /\ \A j \in 1..Len(defs) :
                                    (/\ defs[j][2].name = n
                                     /\ ~Matches(defs[j][2], c)
                                     /\ ids[j] \in Out(entity_graph, s))
                                        => \E c2 \in known \ {c} : Resolved(defs, c2) = ids[j]
                    /\ \A c \in {x \in known : IsBare(x)} :
                          \A j \in 1..Len(defs) :
                              (/\ defs[j][2].name = c
                               /\ \A k \in (j + 1)..Len(defs) : defs[k][2].name # c
                               /\ ids[j] # s)
                                  => ids[j] \in Out(entity_graph, s)

\* run of q.py calls P.n and gets the edge to the method, not to the
\* function n; run of x/u.py calls helper and gets the edge to a method
C24_Witness ==
    /\ EntityGraphBuilt
    /\ <<"q.py::run", "q.py::P.n">> \in entity_graph.edges
    /\ <<"q.py::run", "q.py::n">> \notin entity_graph.edges
    /\ <<"q.py::go", "q.py::n">> \in entity_graph.edges
    /\ <<"x/u.py::run", "r.py::R.helper">> \in entity_graph.edges


----------------------------------------------------------------------------
(* Properties of the builder's two graphs *)

\* C30: build_file_graph leaves the builder's entity graph unchanged and
\* build_entity_graph leaves its file graph unchanged: in an entity-mode run
\* the entity graph's nodes, edges and in_cycle flags are the same before
\* and after the build_file_graph call made for the unused-code detector.
C30_BuildsAreSeparate ==
    [][/\ (pc = "detect" /\ pc' = "done") => entity_graph' = entity_graph
       /\ (pc = "parse" /\ analyzer_graph' = "file_graph")
              => entity_graph' = entity_graph
       /\ (pc = "parse" /\ analyzer_graph' = "entity_graph")
              => file_graph' = file_graph]_vars

\* an entity-mode run after the unused-code detector: the file graph has
\* been built, the entity graph has its edges and its flags
C30_Witness ==
    /\ pc = "done"
    /\ analyzer_graph = "entity_graph"
    /\ NodeSet(file_graph) # {}
    /\ entity_graph.edges # {}
    /\ DOMAIN entity_graph.node_in_cycle = NodeSet(entity_graph)
    /\ \E n \in NodeSet(entity_graph) : entity_graph.node_in_cycle[n]


----------------------------------------------------------------------------
(* Properties of Config *)

\* C29: constructing a Config with overrides or from a config file changes
\* only that instance: DEFAULT_CONFIG keeps its values, and every Config
\* constructed without overrides reads the defaults for thresholds,
\* detectors, entry_points and ignore_patterns, whatever constructions
\* preceded it.
C29_DefaultsUntouched ==
    pc = "config" =>
        /\ DEFAULT_CONFIG = DefaultConfig
        /\ \A i \in 1..Len(configs) :
              configs[i].plain =>
                  \A key \in ConfigKeys :
                      ConfigGet(DEFAULT_CONFIG, configs[i], key) = DefaultConfig[key]

====
